---- MODULE Spec2Model ----
(***************************************************************************)
(* A model of epxpop.pop.SynthPop: the location registry (locations,       *)
(* county_fips_codes, return_location_name), the directory resolver        *)
(* (_locations_to_dirs) and the per-county table loaders.                  *)
(*                                                                         *)
(* Python strings are sequences of character codes, Python lists are       *)
(* sequences, a dict is the sequence of its (key, value) items in          *)
(* insertion order, and a pandas table is the sequence of its rows.  A     *)
(* call that raises returns [status |-> <exception>, value |-> <its        *)
(* argument>]; a call that returns gives [status |-> "ok", value |-> v].   *)
(***************************************************************************)
EXTENDS Integers, Sequences, FiniteSets, TLC

VARIABLES
  host,                \* the machine: its environment, working directory, directories
  path_to_pop,         \* the attribute self.path_to_pop (<<>> before construction)
  index,               \* metadata/locations.txt: the sequence of its lines
  available,           \* the entries of the dataset root other than 'metadata'
  files,               \* files[d][f]: the table in file f of directory d, or Missing
  group_metadata,      \* metadata/group_metadata.txt after its header line
  _locations,          \* the attribute self._locations (<<>> while unset)
  _county_fips_codes,  \* the attribute self._county_fips_codes (<<>> while unset)
  request,             \* the call the client makes: the method and its arguments
  result,              \* the outcome of the call, once it is made
  fresh                \* what each call of a session returned on the new object

vars == <<host, path_to_pop, index, available, files, group_metadata,
          _locations, _county_fips_codes, request, result, fresh>>

disk == <<host, index, available, files, group_metadata>>

-----------------------------------------------------------------------------
(* Bounds of the model.                                                    *)

\* the most FIPS codes on one line of the locations index
MaxCodes == 2
\* the most identifiers in the list handed to a loader
MaxLocs == 2
\* the most codes in the list handed to return_location_name
MaxFips == 2

-----------------------------------------------------------------------------
(* Characters and strings.                                                 *)

Zero == 48
Dash == 45
Space == 32
Tab == 9
Newline == 10
PadWidth == 5
Comma == 44
Dot == 46

Whitespace == {Space, Tab, Newline}

Digit(n) == Zero + n

\* the sequences over S of length lo..hi
SeqsOf(S, lo, hi) == UNION {[1..n -> S] : n \in lo..hi}

Range(s) == {s[i] : i \in DOMAIN s}

\* str.zfill(width): pad with '0' on the left, never truncate
zfill(s, width) ==
  IF Len(s) >= width THEN s
  ELSE [i \in 1..width |->
          IF i <= width - Len(s) THEN Zero ELSE s[i - (width - Len(s))]]

\* the order of Python's str comparison: lexicographic on character codes
RECURSIVE StrLess(_, _)
StrLess(a, b) ==
  IF a = <<>> THEN b # <<>>
  ELSE IF b = <<>> THEN FALSE
  ELSE IF Head(a) # Head(b) THEN Head(a) < Head(b)
  ELSE StrLess(Tail(a), Tail(b))

RECURSIVE InsertSorted(_, _)
InsertSorted(x, l) ==
  IF l = <<>> THEN <<x>>
  ELSE IF StrLess(Head(l), x) THEN <<Head(l)>> \o InsertSorted(x, Tail(l))
  ELSE <<x>> \o l

\* list.sort() on a list of strings
RECURSIVE sort(_)
sort(l) == IF l = <<>> THEN <<>> ELSE InsertSorted(Head(l), sort(Tail(l)))

\* sep.join(l)
RECURSIVE join(_, _)
join(sep, l) ==
  IF l = <<>> THEN <<>>
  ELSE IF Len(l) = 1 THEN l[1]
  ELSE l[1] \o sep \o join(sep, Tail(l))

\* str.strip(): drop the whitespace at both ends
RECURSIVE lstrip(_)
lstrip(s) ==
  IF s # <<>> /\ Head(s) \in Whitespace THEN lstrip(Tail(s)) ELSE s

RECURSIVE rstrip(_)
rstrip(s) ==
  IF s # <<>> /\ s[Len(s)] \in Whitespace
  THEN rstrip(SubSeq(s, 1, Len(s) - 1)) ELSE s

strip(s) == rstrip(lstrip(s))

\* str.split(): the maximal runs of non-whitespace characters
RECURSIVE split_ws(_, _)
split_ws(s, word) ==
  IF s = <<>> THEN (IF word = <<>> THEN <<>> ELSE <<word>>)
  ELSE IF Head(s) \in Whitespace
       THEN (IF word = <<>> THEN <<>> ELSE <<word>>) \o split_ws(Tail(s), <<>>)
       ELSE split_ws(Tail(s), Append(word, Head(s)))

split(s) == split_ws(s, <<>>)

\* s.split(" ", 1): cut at the first space; one part when there is none
split_once(s) ==
  IF \E i \in DOMAIN s : s[i] = Space
  THEN LET i == CHOOSE k \in DOMAIN s :
                  s[k] = Space /\ \A j \in 1..(k - 1) : s[j] # Space
       IN  <<SubSeq(s, 1, i - 1), SubSeq(s, i + 1, Len(s))>>
  ELSE <<s>>

-----------------------------------------------------------------------------
(* Outcomes of a call, and dicts.                                          *)

Ok(v) == [status |-> "ok", value |-> v]
Raise(e, v) == [status |-> e, value |-> v]
IsOk(r) == r.status = "ok"

DictKeys(d) == {d[i][1] : i \in DOMAIN d}
DictHas(d, k) == k \in DictKeys(d)
DictGet(d, k) == d[CHOOSE i \in DOMAIN d : d[i][1] = k][2]
\* d[k] = v: a new key goes last, a known key keeps its place
DictSet(d, k, v) ==
  IF DictHas(d, k)
  THEN [i \in DOMAIN d |-> IF d[i][1] = k THEN <<k, v>> ELSE d[i]]
  ELSE Append(d, <<k, v>>)
DictValues(d) == [i \in DOMAIN d |-> d[i][2]]

-----------------------------------------------------------------------------
(* The dataset root.  A path is [abs |-> whether it starts at the root of  *)
(* the file system, parts |-> its components]; a setting that is not given *)
(* (a key absent from params, a variable absent from the environment) is   *)
(* NotSet.                                                                 *)

NotSet == <<>>
Given(path) == <<path>>

\* os.path.join(path, "a/b"), with the components of the relative tail
path_join(path, tail) == [abs |-> path.abs, parts |-> path.parts \o tail]

\* os.path.abspath(path): a relative path is taken from the working directory
abspath(path) ==
  IF path.abs THEN path
  ELSE [abs |-> TRUE, parts |-> host.cwd \o path.parts]

\* os.path.isdir(path)
isdir(path) == abspath(path).parts \in host.directories

\* the exception of _path_to_fred_pop whose message names what is missing
\* (FRED_DATA, country or version), its name and the directory
NotFound(what, name, path) ==
  Raise("FileNotFoundError", [what |-> what, name |-> name, path |-> path])

\* a slip: the path is returned as it was put together
path_to_fred_pop_relative(country, version, params) ==
  LET FRED_HOME == IF params.FRED_HOME # NotSet THEN params.FRED_HOME
                   ELSE host.environ.FRED_HOME
      FRED_DATA == IF params.FRED_DATA # NotSet THEN params.FRED_DATA
                   ELSE IF host.environ.FRED_DATA # NotSet
                   THEN host.environ.FRED_DATA
                   ELSE IF FRED_HOME = NotSet THEN NotSet
                   ELSE Given(path_join(FRED_HOME[1], <<"data">>))
  IN
  \* os.path.isdir(None) raises TypeError
  IF FRED_DATA = NotSet
  THEN Raise("TypeError", [what |-> "FRED_DATA", name |-> "", path |-> NotSet])
  ELSE IF ~isdir(FRED_DATA[1])
  THEN NotFound("FRED_DATA", "", FRED_DATA)
  ELSE
  LET PATH_TO_COUNTRY == path_join(FRED_DATA[1], <<"country", country>>) IN
  IF ~isdir(PATH_TO_COUNTRY)
  THEN NotFound("country", country, FRED_DATA)
  ELSE
  LET PATH_TO_POP == path_join(PATH_TO_COUNTRY, <<version>>) IN
  IF ~isdir(PATH_TO_POP)
  THEN NotFound("version", version, Given(PATH_TO_COUNTRY))
  ELSE Ok(PATH_TO_POP)

\* _path_to_fred_pop(country, version, **params)
_path_to_fred_pop(country, version, params) ==
  LET FRED_HOME == IF params.FRED_HOME # NotSet THEN params.FRED_HOME
                   ELSE host.environ.FRED_HOME
      FRED_DATA == IF params.FRED_DATA # NotSet THEN params.FRED_DATA
                   ELSE IF host.environ.FRED_DATA # NotSet
                   THEN host.environ.FRED_DATA
                   ELSE IF FRED_HOME = NotSet THEN NotSet
                   ELSE Given(path_join(FRED_HOME[1], <<"data">>))
  IN
  \* os.path.isdir(None) raises TypeError
  IF FRED_DATA = NotSet
  THEN Raise("TypeError", [what |-> "FRED_DATA", name |-> "", path |-> NotSet])
  ELSE IF ~isdir(FRED_DATA[1])
  THEN NotFound("FRED_DATA", "", FRED_DATA)
  ELSE
  LET PATH_TO_COUNTRY == path_join(FRED_DATA[1], <<"country", country>>) IN
  IF ~isdir(PATH_TO_COUNTRY)
  THEN NotFound("country", country, FRED_DATA)
  ELSE
  LET PATH_TO_POP == path_join(PATH_TO_COUNTRY, <<version>>) IN
  IF ~isdir(PATH_TO_POP)
  THEN NotFound("version", version, Given(PATH_TO_COUNTRY))
  ELSE Ok(abspath(PATH_TO_POP))

-----------------------------------------------------------------------------
(* The location registry.                                                  *)

\* one pass of the loop over the lines of metadata/locations.txt
RECURSIVE locations_lines(_, _)
locations_lines(lines, acc) ==
  IF lines = <<>> THEN Ok(acc)
  ELSE LET parts == split_once(Head(lines)) IN
       IF Len(parts) # 2
       THEN Raise("ValueError", Head(lines))
       ELSE LET key == strip(parts[1])
                dirs == split(strip(parts[2]))
            IN  locations_lines(
                  Tail(lines),
                  IF \E i \in DOMAIN dirs : dirs[i] \in available
                  THEN DictSet(acc, key, dirs)
                  ELSE acc)

\* a slip: the mapping of the previous call is kept, and the codes of a line
\* are added to the list its name already has
RECURSIVE locations_lines_kept(_, _)
locations_lines_kept(lines, acc) ==
  IF lines = <<>> THEN Ok(acc)
  ELSE LET parts == split_once(Head(lines))
           key == strip(parts[1])
           dirs == split(strip(parts[2]))
           old == IF DictHas(acc, key) THEN DictGet(acc, key) ELSE <<>>
       IN  locations_lines_kept(
             Tail(lines),
             IF \E i \in DOMAIN dirs : dirs[i] \in available
             THEN DictSet(acc, key, old \o dirs)
             ELSE acc)

locations_kept ==
  locations_lines_kept(index, IF _locations = <<>> THEN <<>> ELSE _locations[1])

\* the property SynthPop.locations
locations == locations_lines(index, <<>>)

\* sum(self.locations.values(), [])
RECURSIVE concat_lists(_)
concat_lists(ls) ==
  IF ls = <<>> THEN <<>> ELSE Head(ls) \o concat_lists(Tail(ls))

\* a slip: a location gives its first code only
county_fips_codes_first ==
  LET locs_dict == locations IN
  IF IsOk(locs_dict)
  THEN Ok({locs_dict.value[i][2][1] : i \in DOMAIN locs_dict.value})
  ELSE locs_dict

\* the property SynthPop.county_fips_codes
county_fips_codes ==
  LET locs_dict == locations IN
  IF IsOk(locs_dict)
  THEN Ok(Range(concat_lists(DictValues(locs_dict.value))))
  ELSE locs_dict

\* the dict comprehension {"-".join(value): key for (key, value) in items}
RECURSIVE reversed_locations(_, _)
reversed_locations(items, acc) ==
  IF items = <<>> THEN acc
  ELSE reversed_locations(
         Tail(items),
         DictSet(acc, join(<<Dash>>, Head(items)[2]), Head(items)[1]))

\* the argument of return_location_name after "process FIPS codes" and sort()
canonical_fips(fips_codes) ==
  sort(IF fips_codes.type = "list"
       THEN [i \in DOMAIN fips_codes.val |-> zfill(fips_codes.val[i], PadWidth)]
       ELSE <<zfill(fips_codes.val, PadWidth)>>)

\* a slip: a location is matched when it holds the codes, not when it is them
return_location_name_subset(fips_codes) ==
  LET codes == canonical_fips(fips_codes)
      locs_dict == locations
  IN
  IF ~IsOk(locs_dict) THEN locs_dict
  ELSE LET holds(item) == Range(codes) \subseteq Range(item[2])
           found == SelectSeq(locs_dict.value, holds)
       IN  IF found # <<>> THEN Ok(found[Len(found)][1])
           ELSE Raise("ValueError", codes)

\* SynthPop.return_location_name(fips_codes); fips_codes is
\* [type |-> "str", val |-> s] or [type |-> "list", val |-> <<s1, ...>>]
return_location_name(fips_codes) ==
  LET codes == canonical_fips(fips_codes)
      locs_dict == locations
  IN
  IF ~IsOk(locs_dict) THEN locs_dict
  ELSE LET rev == reversed_locations(locs_dict.value, <<>>)
           k == join(<<Dash>>, codes)
       IN  IF DictHas(rev, k) THEN Ok(DictGet(rev, k))
           ELSE Raise("ValueError", codes)

-----------------------------------------------------------------------------
(* The directory resolver.                                                 *)

\* a slip: dirs = set(...) in place of dirs.update(...)
RECURSIVE locations_to_dirs_loop_assign(_, _, _, _)
locations_to_dirs_loop_assign(locs, dirs, codes, locs_dict) ==
  IF locs = <<>> THEN Ok(dirs)
  ELSE LET loc == Head(locs) IN
       IF ~IsOk(codes) THEN codes
       ELSE IF loc \in codes.value
       THEN locations_to_dirs_loop_assign(Tail(locs), {loc}, codes, locs_dict)
       ELSE IF DictHas(locs_dict.value, loc)
       THEN locations_to_dirs_loop_assign(
              Tail(locs), Range(DictGet(locs_dict.value, loc)), codes, locs_dict)
       ELSE Raise("KeyError", loc)

\* a slip: every identifier is looked up as a name, a FIPS code too
RECURSIVE locations_to_dirs_loop_names(_, _, _, _)
locations_to_dirs_loop_names(locs, dirs, codes, locs_dict) ==
  IF locs = <<>> THEN Ok(dirs)
  ELSE LET loc == Head(locs) IN
       IF ~IsOk(codes) THEN codes
       ELSE IF DictHas(locs_dict.value, loc)
       THEN locations_to_dirs_loop_names(
              Tail(locs), dirs \cup Range(DictGet(locs_dict.value, loc)),
              codes, locs_dict)
       ELSE Raise("KeyError", loc)

\* a slip: an identifier that is not known is passed over
RECURSIVE locations_to_dirs_loop_skip(_, _, _, _)
locations_to_dirs_loop_skip(locs, dirs, codes, locs_dict) ==
  IF locs = <<>> THEN Ok(dirs)
  ELSE LET loc == Head(locs) IN
       IF ~IsOk(codes) THEN codes
       ELSE IF loc \in codes.value
       THEN locations_to_dirs_loop_skip(Tail(locs), dirs \cup {loc}, codes, locs_dict)
       ELSE IF DictHas(locs_dict.value, loc)
       THEN locations_to_dirs_loop_skip(
              Tail(locs), dirs \cup Range(DictGet(locs_dict.value, loc)),
              codes, locs_dict)
       ELSE locations_to_dirs_loop_skip(Tail(locs), dirs, codes, locs_dict)

\* a slip: a name stands for the first of its codes only
RECURSIVE locations_to_dirs_loop_first(_, _, _, _)
locations_to_dirs_loop_first(locs, dirs, codes, locs_dict) ==
  IF locs = <<>> THEN Ok(dirs)
  ELSE LET loc == Head(locs) IN
       IF ~IsOk(codes) THEN codes
       ELSE IF loc \in codes.value
       THEN locations_to_dirs_loop_first(Tail(locs), dirs \cup {loc}, codes, locs_dict)
       ELSE IF DictHas(locs_dict.value, loc)
       THEN locations_to_dirs_loop_first(
              Tail(locs), dirs \cup {DictGet(locs_dict.value, loc)[1]},
              codes, locs_dict)
       ELSE Raise("KeyError", loc)

\* the loop of SynthPop._locations_to_dirs over the identifiers; codes and
\* locs_dict are what self.county_fips_codes and self.locations evaluate to
\* on every turn
RECURSIVE locations_to_dirs_loop(_, _, _, _)
locations_to_dirs_loop(locs, dirs, codes, locs_dict) ==
  IF locs = <<>> THEN Ok(dirs)
  ELSE LET loc == Head(locs) IN
       IF ~IsOk(codes) THEN codes
       ELSE IF loc \in codes.value
       THEN locations_to_dirs_loop(Tail(locs), dirs \cup {loc}, codes, locs_dict)
       ELSE IF DictHas(locs_dict.value, loc)
       THEN locations_to_dirs_loop(
              Tail(locs), dirs \cup Range(DictGet(locs_dict.value, loc)),
              codes, locs_dict)
       ELSE Raise("KeyError", loc)

\* a slip: the attributes that the properties left are read, which a new
\* object does not have
locations_to_dirs_attributes(locs) ==
  IF _county_fips_codes = <<>> \/ _locations = <<>>
  THEN Raise("AttributeError", "_county_fips_codes")
  ELSE locations_to_dirs_loop(locs, {}, Ok(_county_fips_codes[1]),
                              Ok(_locations[1]))

\* SynthPop._locations_to_dirs(locations)
_locations_to_dirs(locs) ==
  LET codes == county_fips_codes
      locs_dict == locations
  IN  locations_to_dirs_loop(locs, {}, codes, locs_dict)

-----------------------------------------------------------------------------
(* pandas tables: [cols |-> column names, rows |-> rows], a row being a    *)
(* function from the column names to cells; every cell is a string and a   *)
(* missing value is the cell NaN.                                          *)

NaN == "NaN"

\* pd.DataFrame()
EmptyFrame == [cols |-> <<>>, rows |-> <<>>]

\* a slip: the table read last replaces what was read before
concat_last(a, b) == b

\* pd.concat((a, b), ignore_index=True): the rows of a, then those of b, over
\* the columns of a followed by the new columns of b
concat(a, b) ==
  LET new(c) == c \notin Range(a.cols)
      cols == a.cols \o SelectSeq(b.cols, new)
      widen(t) == [i \in DOMAIN t.rows |->
                     [c \in Range(cols) |->
                        IF c \in Range(t.cols) THEN t.rows[i][c] ELSE NaN]]
  IN  [cols |-> cols, rows |-> widen(a) \o widen(b)]

\* a slip: of a list of tables only the first is taken
concat_fold_first(tables, acc) == acc

RECURSIVE concat_fold(_, _)
concat_fold(tables, acc) ==
  IF tables = <<>> THEN acc
  ELSE concat_fold(Tail(tables), concat(acc, Head(tables)))

\* pd.concat(tables): raises on an empty list
concat_all(tables) ==
  IF tables = <<>> THEN Raise("ValueError", "No objects to concatenate")
  ELSE Ok(concat_fold(Tail(tables), Head(tables)))

\* a slip: the keys are not compared
matches_all(l, lkey, right, rkey) == right.rows

\* the rows of `right` that one row of `left` is joined with
matches(l, lkey, right, rkey) ==
  LET hit(r) == r[rkey] = l[lkey] IN SelectSeq(right.rows, hit)

\* left.merge(right, how="left", left_on=lkey, right_on=rkey); with
\* lkey = rkey this is on=lkey and the key column appears once
left_merge(left, right, lkey, rkey) ==
  IF lkey \notin Range(left.cols) THEN Raise("KeyError", lkey)
  ELSE IF rkey \notin Range(right.cols) THEN Raise("KeyError", rkey)
  ELSE
  LET new(c) == c \notin Range(left.cols)
      cols == left.cols \o SelectSeq(right.cols, new)
      joined(l, r) == [c \in Range(cols) |->
                         IF c \in Range(left.cols) THEN l[c] ELSE r[c]]
      alone(l) == [c \in Range(cols) |->
                     IF c \in Range(left.cols) THEN l[c] ELSE NaN]
      rowsOf(l) == LET ms == matches(l, lkey, right, rkey) IN
                   IF ms = <<>> THEN <<alone(l)>>
                   ELSE [j \in DOMAIN ms |-> joined(l, ms[j])]
  IN  Ok([cols |-> cols,
          rows |-> concat_lists([i \in DOMAIN left.rows |-> rowsOf(left.rows[i])])])

\* a slip: the column is left in the table
drop_none(t, col) == Ok(t)

\* t.drop(columns=col)
drop(t, col) ==
  IF col \notin Range(t.cols) THEN Raise("KeyError", col)
  ELSE LET keep(c) == c # col
           cols == SelectSeq(t.cols, keep)
       IN  Ok([cols |-> cols,
               rows |-> [i \in DOMAIN t.rows |->
                           [c \in Range(cols) |-> t.rows[i][c]]]])

\* a slip: the column keeps its name
rename_none(t, old, new) == t

\* t.rename(columns={old: new}); a column that is absent is left alone
rename(t, old, new) ==
  LET cols == [i \in DOMAIN t.cols |-> IF t.cols[i] = old THEN new ELSE t.cols[i]]
  IN  [cols |-> cols,
       rows |-> [i \in DOMAIN t.rows |->
                   [c \in Range(cols) |->
                      IF c = new /\ old \in Range(t.cols)
                      THEN t.rows[i][old] ELSE t.rows[i][c]]]]

\* a slip: the column is not set
assign_nothing(t, col, v) == t

\* t.assign(col=v)
assign(t, col, v) ==
  LET cols == IF col \in Range(t.cols) THEN t.cols ELSE Append(t.cols, col)
  IN  [cols |-> cols,
       rows |-> [i \in DOMAIN t.rows |->
                   [c \in Range(cols) |-> IF c = col THEN v ELSE t.rows[i][c]]]]

\* a slip: the table is returned as it is, its columns not restricted
loc_columns_all(t, cols) == Ok(t)

\* t.loc[:, cols]
loc_columns(t, cols) ==
  IF \E i \in DOMAIN cols : cols[i] \notin Range(t.cols)
  THEN Raise("KeyError", cols)
  ELSE Ok([cols |-> cols,
           rows |-> [i \in DOMAIN t.rows |->
                       [c \in Range(cols) |-> t.rows[i][c]]]])

\* t.drop_duplicates(): the first of each group of identical rows is kept
RECURSIVE unique_rows(_, _)
unique_rows(rows, seen) ==
  IF rows = <<>> THEN <<>>
  ELSE IF Head(rows) \in seen THEN unique_rows(Tail(rows), seen)
  ELSE <<Head(rows)>> \o unique_rows(Tail(rows), seen \cup {Head(rows)})

\* a slip: the rows are returned as they were concatenated
drop_duplicates_none(t) == t

drop_duplicates(t) == [cols |-> t.cols, rows |-> unique_rows(t.rows, {})]

-----------------------------------------------------------------------------
(* Reading the per-county files.  A file name is the tuple of its parts,   *)
(* <<"person-", type, ".txt">> being f"person-{type}.txt" and               *)
(* <<type, "-block_group.txt">> f"{type}-block_group.txt".  A loader walks *)
(* the set of directories in the order `ord`, the iteration order of the   *)
(* Python set, which is any order of the codes.                            *)

\* pd.read_csv(os.path.join(self.path_to_pop, dir, fname))
read_csv(dir, fname) ==
  IF dir \in DOMAIN files /\ fname \in DOMAIN files[dir]
  THEN Ok(files[dir][fname])
  ELSE Raise("FileNotFoundError", <<dir, fname>>)

\* the elements of the set dirs in iteration order
iterate(dirs, ord) == LET in(d) == d \in dirs IN SelectSeq(ord, in)

\* a slip: a directory without the file is passed over
RECURSIVE read_and_concat_skip(_, _, _)
read_and_concat_skip(dirseq, fname, t) ==
  IF dirseq = <<>> THEN Ok(t)
  ELSE LET df == read_csv(Head(dirseq), fname) IN
       IF ~IsOk(df) THEN read_and_concat_skip(Tail(dirseq), fname, t)
       ELSE read_and_concat_skip(Tail(dirseq), fname, concat(t, df.value))

\* for dir in dirs: df = pd.read_csv(<dir>/<fname>); t = pd.concat((t, df))
RECURSIVE read_and_concat(_, _, _)
read_and_concat(dirseq, fname, t) ==
  IF dirseq = <<>> THEN Ok(t)
  ELSE LET df == read_csv(Head(dirseq), fname) IN
       IF ~IsOk(df) THEN df
       ELSE read_and_concat(Tail(dirseq), fname, concat(t, df.value))

\* [f(x) for x in xs] where f may raise: the tables, or the first error
RECURSIVE collect(_)
collect(rs) ==
  IF rs = <<>> THEN Ok(<<>>)
  ELSE IF ~IsOk(Head(rs)) THEN Head(rs)
  ELSE LET rest == collect(Tail(rs)) IN
       IF ~IsOk(rest) THEN rest ELSE Ok(<<Head(rs).value>> \o rest.value)

\* pd.concat([f(x) for x in xs])
concat_results(rs) ==
  LET tables == collect(rs) IN
  IF ~IsOk(tables) THEN tables ELSE concat_all(tables.value)

\* the characters of the words that the metadata file and the file names share
Spell ==
    ("college_dorm" :> <<99, 111, 108, 108, 101, 103, 101, 95, 100, 111, 114, 109>>)
    @@ ("household" :> <<104, 111, 117, 115, 101, 104, 111, 108, 100>>)
    @@ ("school" :> <<115, 99, 104, 111, 111, 108>>)
    @@ ("workplace" :> <<119, 111, 114, 107, 112, 108, 97, 99, 101>>)
    @@ ("grade" :> <<103, 114, 97, 100, 101>>)
    @@ ("dorm" :> <<100, 111, 114, 109>>)
    @@ ("person-" :> <<112, 101, 114, 115, 111, 110, 45>>)
    @@ ("txt" :> <<116, 120, 116>>)
    @@ ("" :> <<>>)

\* the word that a run of characters spells
Name(codes) == CHOOSE n \in DOMAIN Spell : Spell[n] = codes

\* the character class [a-zA-Z_-]
Class == (97..122) \cup (65..90) \cup {95, Dash}

\* the length of the longest run of [a-zA-Z_-] that starts at s[i]
RECURSIVE run(_, _)
run(s, i) == IF i <= Len(s) /\ s[i] \in Class THEN 1 + run(s, i + 1) ELSE 0

\* the literal lit stands at s[i]
has(s, i, lit) ==
  /\ i + Len(lit) - 1 <= Len(s)
  /\ SubSeq(s, i, i + Len(lit) - 1) = lit

\* "([a-zA-Z_-]*).txt" at l[p], the run of [a-zA-Z_-] there being n long:
\* the group is the longest part of the run that lets the rest match, "."
\* being any character but a newline
re_match_group(l, p, n) ==
  LET K == {k \in 0..n : /\ p + k <= Len(l)
                         /\ l[p + k] # Newline
                         /\ has(l, p + k + 1, Spell["txt"])}
  IN  IF K = {} THEN NotSet
      ELSE Given(SubSeq(l, p, p + (CHOOSE x \in K : \A y \in K : y <= x) - 1))

\* ",person-([a-zA-Z_-]*).txt" after the g characters of the first run
re_match_after(l, g) ==
  IF has(l, g + 1, <<Comma>>) /\ has(l, g + 2, Spell["person-"])
  THEN re_match_group(l, g + 2 + Len(Spell["person-"]),
                      run(l, g + 2 + Len(Spell["person-"])))
  ELSE NotSet

\* re.match("[a-zA-Z_-]*,person-([a-zA-Z_-]*).txt", l): None, or the match
\* with its group(1)
re_match(l) == re_match_after(l, run(l, 1))

\* [m.group(1) for m in ms if m.group(1) not in excluded]; m is None for a
\* line that does not match
groups_of(ms, excluded) ==
  IF \E i \in DOMAIN ms : ms[i] = NotSet
  THEN Raise("AttributeError", "'NoneType' object has no attribute 'group'")
  ELSE LET gq(m) == m[1] \notin excluded
           kept == SelectSeq(ms, gq)
       IN  Ok([i \in DOMAIN kept |-> Name(kept[i][1])])

\* a slip: only school and workplace are left out
group_quarter_types_grade(lines) ==
  groups_of([i \in DOMAIN lines |-> re_match(lines[i])],
            {Spell["school"], Spell["workplace"]})

\* the list comprehension of SynthPop._group_quarter_types over the lines
\* after the header: m.group(1) of every line unless it is grade, school or
\* workplace
group_quarter_types_of(lines) ==
  groups_of([i \in DOMAIN lines |-> re_match(lines[i])],
            {Spell["grade"], Spell["school"], Spell["workplace"]})

\* SynthPop._group_quarter_types()
_group_quarter_types == group_quarter_types_of(group_metadata)

\* read_single_county_data of SynthPop._group_quarter_data
gq_single_county_data(group_quarter_type, county_fips) ==
  LET person_group_quarter_file == <<"person-", group_quarter_type, ".txt">>
      group_quarter_block_group_file == <<group_quarter_type, "-block_group.txt">>
      person_group_quarter_df == read_csv(county_fips, person_group_quarter_file)
      group_quarter_block_group_df ==
        read_csv(county_fips, group_quarter_block_group_file)
  IN  IF ~IsOk(person_group_quarter_df) THEN person_group_quarter_df
      ELSE IF ~IsOk(group_quarter_block_group_df) THEN group_quarter_block_group_df
      ELSE LET m == left_merge(person_group_quarter_df.value,
                               group_quarter_block_group_df.value,
                               "PLACE", "PLACE")
           IN  IF ~IsOk(m) THEN m
               ELSE Ok(assign(rename(m.value, "CONTAINER", "Block_Group"),
                              "gq_type", group_quarter_type))

\* SynthPop._group_quarter_data(group_quarter_type, locations)
_group_quarter_data(group_quarter_type, locs, ord) ==
  LET dirs == _locations_to_dirs(locs) IN
  IF ~IsOk(dirs) THEN dirs
  ELSE LET ds == iterate(dirs.value, ord) IN
       concat_results(
         [i \in DOMAIN ds |-> gq_single_county_data(group_quarter_type, ds[i])])

\* gq_people.merge(gq_data, how="left", left_on="ID", right_on="PERSON")
\*   .drop(columns="PERSON")
merge_gq_data(gq_people, gq_data) ==
  IF ~IsOk(gq_data) THEN gq_data
  ELSE LET m == left_merge(gq_people, gq_data.value, "ID", "PERSON") IN
       IF ~IsOk(m) THEN m ELSE drop(m.value, "PERSON")

\* pd.concat([self._group_quarter_data(gq_type, locations)
\*            for gq_type in self._group_quarter_types()]) and the merge
join_gq_data(gq_people, types, locs, ord) ==
  IF ~IsOk(types) THEN types
  ELSE merge_gq_data(
         gq_people,
         concat_results([i \in DOMAIN types.value |->
                           _group_quarter_data(types.value[i], locs, ord)]))

\* the loop over gq_person.txt, and what follows it
read_gq_people(gq_people, locs, ord) ==
  IF ~IsOk(gq_people) THEN gq_people
  ELSE join_gq_data(gq_people.value, _group_quarter_types, locs, ord)

\* the body of SynthPop.load_gq_people once the directories are resolved
load_gq_people_of(dirs, locs, ord) ==
  IF ~IsOk(dirs) THEN dirs
  ELSE read_gq_people(
         read_and_concat(iterate(dirs.value, ord), <<"gq_person.txt">>, EmptyFrame),
         locs, ord)

\* SynthPop.load_gq_people(locations)
load_gq_people(locs, ord) ==
  load_gq_people_of(_locations_to_dirs(locs), locs, ord)

\* for dir in dirs: n = n + len(pd.read_csv(<dir>/<fname>))
RECURSIVE count_rows(_, _, _)
count_rows(dirseq, fname, n) ==
  IF dirseq = <<>> THEN Ok(n)
  ELSE LET df == read_csv(Head(dirseq), fname) IN
       IF ~IsOk(df) THEN df
       ELSE count_rows(Tail(dirseq), fname, n + Len(df.value.rows))

\* SynthPop.gq_population_count(locations)
gq_population_count(locs, ord) ==
  LET dirs == _locations_to_dirs(locs) IN
  IF ~IsOk(dirs) THEN dirs
  ELSE count_rows(iterate(dirs.value, ord), <<"gq_person.txt">>, 0)

\* SynthPop.population_count(locations, include_gq_people)
population_count(locs, include_gq_people, ord) ==
  LET dirs == _locations_to_dirs(locs) IN
  IF ~IsOk(dirs) THEN dirs
  ELSE
  LET n == count_rows(iterate(dirs.value, ord), <<"person.txt">>, 0) IN
  IF ~IsOk(n) \/ ~include_gq_people THEN n
  ELSE LET gq == gq_population_count(locs, ord) IN
       IF ~IsOk(gq) THEN gq ELSE Ok(n.value + gq.value)

output_cols ==
  <<"ID", "AGE", "sex", "race", "household_relationship", "household_income">>

\* a slip: the group-quarters people are never appended
load_people_without_gq(locs, include_gq_people, ord) ==
  LET dirs == _locations_to_dirs(locs) IN
  IF ~IsOk(dirs) THEN dirs
  ELSE
  LET people == read_and_concat(iterate(dirs.value, ord),
                                <<"person.txt">>, EmptyFrame)
  IN
  IF ~IsOk(people) THEN people
  ELSE loc_columns(people.value, output_cols)

\* SynthPop.load_people(locations, include_gq_people)
load_people(locs, include_gq_people, ord) ==
  LET dirs == _locations_to_dirs(locs) IN
  IF ~IsOk(dirs) THEN dirs
  ELSE
  LET people == read_and_concat(iterate(dirs.value, ord),
                                <<"person.txt">>, EmptyFrame)
  IN
  IF ~IsOk(people) THEN people
  ELSE IF include_gq_people
  THEN LET gq == load_gq_people(locs, ord) IN
       IF ~IsOk(gq) THEN gq
       ELSE loc_columns(concat(people.value, gq.value), output_cols)
  ELSE loc_columns(people.value, output_cols)

\* read_single_county_data of SynthPop.load_people_household_xref
xref_single_county_data(county_fips) ==
  LET person_household_file == <<"person-", "household", ".txt">>
      person_household_df == read_csv(county_fips, person_household_file)
  IN
  IF ~IsOk(person_household_df)
  THEN Raise("FileNotFoundError", <<county_fips, person_household_file>>)
  ELSE Ok(rename(person_household_df.value, "PERSON", "ID"))

\* SynthPop.load_people_household_xref(locations)
load_people_household_xref(locs, ord) ==
  LET dirs == _locations_to_dirs(locs) IN
  IF ~IsOk(dirs) THEN dirs
  ELSE LET ds == iterate(dirs.value, ord) IN
       concat_results([i \in DOMAIN ds |-> xref_single_county_data(ds[i])])

\* SynthPop.load_schools(locations)
load_schools(locs, ord) ==
  LET dirs == _locations_to_dirs(locs) IN
  IF ~IsOk(dirs) THEN dirs
  ELSE LET schools == read_and_concat(iterate(dirs.value, ord),
                                      <<"school.txt">>, EmptyFrame)
       IN  IF ~IsOk(schools) THEN schools
           ELSE Ok(drop_duplicates(schools.value))

\* SynthPop.load_workplaces(locations)
load_workplaces(locs, ord) ==
  LET dirs == _locations_to_dirs(locs) IN
  IF ~IsOk(dirs) THEN dirs
  ELSE LET workplaces == read_and_concat(iterate(dirs.value, ord),
                                         <<"workplace.txt">>, EmptyFrame)
       IN  IF ~IsOk(workplaces) THEN workplaces
           ELSE Ok(drop_duplicates(workplaces.value))

\* SynthPop._household_block_group_xref(locations)
_household_block_group_xref(locs, ord) ==
  LET dirs == _locations_to_dirs(locs) IN
  IF ~IsOk(dirs) THEN dirs
  ELSE LET ds == iterate(dirs.value, ord) IN
       concat_results(
         [i \in DOMAIN ds |-> read_csv(ds[i], <<"household", "-block_group.txt">>)])

\* SynthPop.load_households(locations)
load_households(locs, ord) ==
  LET dirs == _locations_to_dirs(locs) IN
  IF ~IsOk(dirs) THEN dirs
  ELSE
  LET households == read_and_concat(iterate(dirs.value, ord),
                                    <<"household.txt">>, EmptyFrame)
  IN
  IF ~IsOk(households) THEN households
  ELSE
  LET xref == _household_block_group_xref(locs, ord) IN
  IF ~IsOk(xref) THEN xref
  ELSE LET m == left_merge(households.value, xref.value, "ID", "PLACE") IN
       IF ~IsOk(m) THEN m
       ELSE LET d == drop(m.value, "PLACE") IN
            IF ~IsOk(d) THEN d
            ELSE Ok(rename(d.value, "CONTAINER", "Block_Group"))

-----------------------------------------------------------------------------
(* The datasets the model runs on.                                         *)

\* the county directories "00002" and "00010", and the same codes as a
\* caller may write them, without the leading zeros
F2 == <<Digit(0), Digit(0), Digit(0), Digit(0), Digit(2)>>
F10 == <<Digit(0), Digit(0), Digit(0), Digit(1), Digit(0)>>
U2 == <<Digit(2)>>
U10 == <<Digit(1), Digit(0)>>
Codes == {F2, F10}

\* location names: "A" and "B" name counties, "M" a metro area, and "N" is
\* on no line of the index
NameA == <<65>>
NameB == <<66>>
NameM == <<77>>
NameN == <<78>>

\* the line "name fips1 fips2 ...\n" of the locations index
MkLine(name, codes) ==
  name \o <<Space>> \o join(<<Space>>, codes) \o <<Newline>>

CountyLines(name) == {<<>>} \cup {<<MkLine(name, <<c>>)>> : c \in Codes}
MetroLines == {<<MkLine(NameM, cs)>> : cs \in SeqsOf(Codes, 1, MaxCodes)}

\* the metro lines that list each of their counties once
MetroLinesOnce ==
  {<<MkLine(NameM, cs)>> :
     cs \in {l \in SeqsOf(Codes, 1, MaxCodes) : Cardinality(Range(l)) = Len(l)}}

Table(cols, cells) ==
  [cols |-> cols,
   rows |-> [i \in DOMAIN cells |->
               [c \in Range(cols) |->
                  cells[i][CHOOSE k \in DOMAIN cols : cols[k] = c]]]]

person_cols == output_cols
gq_person_cols == <<"ID", "AGE", "sex", "race">>
household_cols == <<"ID", "LAT", "LON", "ELEV", "income">>
place_cols == <<"ID", "LAT", "LON", "ELEV">>
block_group_cols == <<"PLACE", "CONTAINER">>
person_household_cols == <<"PERSON", "PLACE", "ROLE">>
person_gq_cols == <<"PERSON", "ROLE", "PLACE">>

\* the files of one county directory.  IDs are unique across the dataset;
\* school s1 and workplace w1 are recorded in both counties.
CountyFiles(d) ==
  IF d = F2
  THEN (<<"person.txt">> :> Table(person_cols,
            << <<"p21", "40", "1", "1", "0", "50000">>,
               <<"p22", "8", "0", "1", "2", "50000">> >>))
    @@ (<<"gq_person.txt">> :> Table(gq_person_cols,
            << <<"g21", "19", "1", "1">> >>))
    @@ (<<"household.txt">> :> Table(household_cols,
            << <<"h21", "31.8", "-103.5", "850", "50000">> >>))
    @@ (<<"household", "-block_group.txt">> :> Table(block_group_cols,
            << <<"h21", "bg2">> >>))
    @@ (<<"person-", "household", ".txt">> :> Table(person_household_cols,
            << <<"p21", "h21", "1">>, <<"p22", "h21", "0">> >>))
    @@ (<<"person-", "college_dorm", ".txt">> :> Table(person_gq_cols,
            << <<"g21", "0", "d21">> >>))
    @@ (<<"college_dorm", "-block_group.txt">> :> Table(block_group_cols,
            << <<"d21", "bg2">> >>))
    @@ (<<"school.txt">> :> Table(place_cols,
            << <<"s1", "31.9", "-103.4", "840">>,
               <<"s2", "31.7", "-103.6", "860">> >>))
    @@ (<<"workplace.txt">> :> Table(place_cols,
            << <<"w1", "31.9", "-103.4", "840">> >>))
  ELSE (<<"person.txt">> :> Table(person_cols,
            << <<"p101", "33", "0", "2", "0", "70000">> >>))
    @@ (<<"gq_person.txt">> :> Table(gq_person_cols,
            << <<"g101", "20", "0", "1">>, <<"g102", "21", "1", "6">> >>))
    @@ (<<"household.txt">> :> Table(household_cols,
            << <<"h101", "40.4", "-80.0", "300", "70000">>,
               <<"h102", "40.5", "-80.1", "310", "20000">> >>))
    @@ (<<"household", "-block_group.txt">> :> Table(block_group_cols,
            << <<"h101", "bg10">>, <<"h102", "bg10">> >>))
    @@ (<<"person-", "household", ".txt">> :> Table(person_household_cols,
            << <<"p101", "h101", "1">> >>))
    @@ (<<"person-", "college_dorm", ".txt">> :> Table(person_gq_cols,
            << <<"g101", "0", "d101">>, <<"g102", "0", "d101">> >>))
    @@ (<<"college_dorm", "-block_group.txt">> :> Table(block_group_cols,
            << <<"d101", "bg10">> >>))
    @@ (<<"school.txt">> :> Table(place_cols,
            << <<"s1", "31.9", "-103.4", "840">>,
               <<"s3", "40.4", "-80.0", "300">> >>))
    @@ (<<"workplace.txt">> :> Table(place_cols,
            << <<"w1", "31.9", "-103.4", "840">>,
               <<"w3", "40.4", "-80.0", "300">> >>))

\* a line "<group>,person-<type>.txt" of metadata/group_metadata.txt
MetaLine(group, type) ==
  Spell[group] \o <<Comma>> \o Spell["person-"] \o Spell[type]
    \o <<Dot>> \o Spell["txt"] \o <<Newline>>

\* the lines of metadata/group_metadata.txt after its header
GroupMetadata ==
  << MetaLine("college_dorm", "college_dorm"),
     MetaLine("household", "household"),
     MetaLine("school", "school"),
     MetaLine("workplace", "workplace") >>

\* contents of metadata/group_metadata.txt after the header: the shipped
\* lines, with a grade line, without any line, the household line alone,
\* the last line without its newline, and with a line that is blank, that
\* has a digit in its names, or that names a file of another form
MetadataFiles ==
  {GroupMetadata,
   <<MetaLine("grade", "grade")>> \o GroupMetadata,
   <<>>,
   <<MetaLine("household", "household")>>,
   <<MetaLine("household", "household"),
     SubSeq(MetaLine("college_dorm", "college_dorm"), 1,
            Len(MetaLine("college_dorm", "college_dorm")) - 1)>>,
   GroupMetadata \o <<<<Newline>>>>,
   <<Spell["dorm"] \o <<Zero + 2, Comma>> \o Spell["person-"] \o Spell["dorm"]
       \o <<Zero + 2, Dot>> \o Spell["txt"] \o <<Newline>>>> \o GroupMetadata,
   <<MetaLine("household", "household"),
     Spell["dorm"] \o <<Comma>> \o Spell["dorm"] \o <<Dot>> \o Spell["txt"]
       \o <<Newline>>>>}

\* what a dataset may lack: nothing, a county directory, or one file of a
\* county directory
Lacking ==
  {<<>>,
   <<F10>>,
   <<F10, <<"person.txt">>>>,
   <<F2, <<"college_dorm", "-block_group.txt">>>>,
   <<F2, <<"household", "-block_group.txt">>>>,
   <<F10, <<"person-", "household", ".txt">>>>}

FilesLacking(dirs, lack) ==
  [d \in dirs |->
     IF Len(lack) = 2 /\ lack[1] = d
     THEN [f \in DOMAIN CountyFiles(d) \ {lack[2]} |-> CountyFiles(d)[f]]
     ELSE CountyFiles(d)]

\* the places a dataset root may be: /d, d under the working directory /w,
\* and data under the home /h
DataAbs == [abs |-> TRUE, parts |-> <<"d">>]
DataRel == [abs |-> FALSE, parts |-> <<"d">>]
Home == [abs |-> TRUE, parts |-> <<"h">>]
Cwd == <<"w">>
Roots == {<<"d">>, <<"w", "d">>, <<"h", "data">>}
Countries == {"usa", "xx"}
Versions == {"US_2010.v5", "US_2010.v4"}

\* the directories of a root in which the dataset is installed down to
\* `depth`: nothing, the root, the country usa, the version US_2010.v5
Tree(root, depth) ==
  {root : x \in {d \in {"root"} : depth >= 1}}
  \cup {root \o <<"country", "usa">> : x \in {d \in {"country"} : depth >= 2}}
  \cup {root \o <<"country", "usa", "US_2010.v5">> :
          x \in {d \in {"version"} : depth >= 3}}

Depths == {"none", "root", "country", "version"}
DepthOf(d) ==
  CASE d = "none" -> 0 [] d = "root" -> 1 [] d = "country" -> 2 [] d = "version" -> 3

Hosts ==
  {[environ |-> [FRED_DATA |-> ed, FRED_HOME |-> eh],
    cwd |-> Cwd,
    directories |-> UNION {Tree(r, DepthOf(depth[r])) : r \in Roots}] :
     ed \in {NotSet, Given(DataAbs)}, eh \in {NotSet, Given(Home)},
     depth \in [Roots -> Depths]}

\* the machine of the sessions: FRED_DATA=/d, with the dataset under it
InstalledHost ==
  [environ |-> [FRED_DATA |-> Given(DataAbs), FRED_HOME |-> NotSet],
   cwd |-> Cwd,
   directories |-> Tree(<<"d">>, DepthOf("version"))]

Constructions ==
  {[op |-> "__init__", country |-> c, version |-> v,
    params |-> [FRED_DATA |-> pd, FRED_HOME |-> ph]] :
     c \in Countries, v \in Versions,
     pd \in {NotSet, Given(DataAbs), Given(DataRel)},
     ph \in {NotSet, Given(Home)}}

\* what a caller may pass
FipsForms == {F2, F10, U2, U10}
FipsInputs ==
  {[type |-> "str", val |-> c] : c \in FipsForms}
  \cup {[type |-> "list", val |-> l] : l \in SeqsOf(FipsForms, 0, MaxFips)}
Identifiers == {NameA, NameM, NameN, F2, F10}
LocationLists == SeqsOf(Identifiers, 0, MaxLocs)
LoadIdentifiers == {NameA, NameB, NameM, NameN}
LoadLists == SeqsOf(LoadIdentifiers, 0, MaxLocs)
Orders == {<<F2, F10>>, <<F10, F2>>}

\* a call: the method, and the arguments it takes (the others stay at these
\* defaults)
Call(op) ==
  [op |-> op, fips_codes |-> [type |-> "list", val |-> <<>>], locations |-> <<>>,
   include_gq_people |-> TRUE, ord |-> <<F2, F10>>,
   group_quarter_type |-> "college_dorm"]

Loaders ==
  {"load_people", "load_gq_people", "load_people_household_xref",
   "load_schools", "load_workplaces", "load_households"}

RegistryCalls ==
  {Call("locations"), Call("county_fips_codes")}
  \cup {[Call("return_location_name") EXCEPT !.fips_codes = f] : f \in FipsInputs}
  \cup {[Call("_locations_to_dirs") EXCEPT !.locations = l] : l \in LocationLists}

LoadCalls ==
  {[Call("_locations_to_dirs") EXCEPT !.locations = l] :
     l \in SeqsOf(LoadIdentifiers \cup Codes, 0, MaxLocs)}
  \cup {[Call(op) EXCEPT !.locations = l, !.ord = o] :
          op \in Loaders, l \in LoadLists, o \in Orders}
  \cup {[Call("load_people") EXCEPT
           !.locations = l, !.ord = o, !.include_gq_people = FALSE] :
          l \in LoadLists, o \in Orders}
  \cup {[Call("population_count") EXCEPT
           !.locations = l, !.include_gq_people = g] :
          l \in LoadLists, g \in BOOLEAN}
  \cup {[Call("gq_population_count") EXCEPT !.locations = l] : l \in LoadLists}

\* the calls on the group-quarters part of the loader
GqCalls ==
  {Call("_group_quarter_types")}
  \cup {[Call("_group_quarter_data") EXCEPT
           !.locations = l, !.ord = o, !.group_quarter_type = t] :
          l \in LoadLists, o \in Orders, t \in {"college_dorm", "household"}}
  \cup {[Call("load_gq_people") EXCEPT !.locations = l, !.ord = o] :
          l \in LoadLists, o \in Orders}

-----------------------------------------------------------------------------
(* The object: construction and the calls.  The dataset does not change    *)
(* while the process runs; a specification starts with the dataset and the *)
(* call the client is about to make.                                       *)

NoResult == [status |-> "pending", value |-> <<>>]

\* the object of a session, constructed as SynthPop() on the machine where the
\* dataset is installed
Constructed ==
  /\ host = InstalledHost
  /\ path_to_pop = <<_path_to_fred_pop("usa", "US_2010.v5",
                                       [FRED_DATA |-> NotSet,
                                        FRED_HOME |-> NotSet]).value>>

InitObject ==
  /\ group_metadata = GroupMetadata
  /\ _locations = <<>>
  /\ _county_fips_codes = <<>>
  /\ result = NoResult
  /\ fresh = <<>>

\* the registry on any index and any set of county directories
Init ==
  /\ Constructed
  /\ \E a \in CountyLines(NameA), b \in {<<>>, <<MkLine(NameB, <<F10>>)>>},
        m \in {<<>>} \cup MetroLines :
       index = a \o b \o m
  /\ available \in SUBSET Codes
  /\ files = FilesLacking(available, <<>>)
  /\ request \in RegistryCalls
  /\ InitObject

\* the loaders on datasets with a metro area
InitLoad ==
  /\ Constructed
  /\ \E b \in {<<>>, <<MkLine(NameB, <<F10>>)>>}, m \in MetroLinesOnce :
       index = <<MkLine(NameA, <<F2>>)>> \o b \o m
  /\ \E lack \in Lacking :
       /\ available = IF lack = <<F10>> THEN {F2} ELSE Codes
       /\ files = FilesLacking(available, lack)
  /\ request \in LoadCalls
  /\ InitObject

\* the group-quarters part of the loader on datasets whose metadata file
\* varies
InitGq ==
  /\ Constructed
  /\ index = <<MkLine(NameA, <<F2>>), MkLine(NameB, <<F10>>),
               MkLine(NameM, <<F2, F10>>)>>
  /\ \E lack \in {<<>>, <<F2, <<"college_dorm", "-block_group.txt">>>>} :
       /\ available = Codes
       /\ files = FilesLacking(available, lack)
  /\ request \in GqCalls
  /\ group_metadata \in MetadataFiles
  /\ _locations = <<>>
  /\ _county_fips_codes = <<>>
  /\ result = NoResult
  /\ fresh = <<>>

Returns(r) == result' = [status |-> r.status, value |-> r.value]

\* self._locations = locations, on every evaluation of the property
locations_accessed ==
  _locations' = IF IsOk(locations) THEN <<locations.value>> ELSE _locations

\* self._county_fips_codes = set(...), which evaluates self.locations first
county_fips_codes_accessed ==
  /\ locations_accessed
  /\ _county_fips_codes' =
       IF IsOk(county_fips_codes) THEN <<county_fips_codes.value>>
       ELSE _county_fips_codes

\* _locations_to_dirs reads the properties once per identifier
resolver_called(locs) ==
  IF locs = <<>> THEN UNCHANGED <<_locations, _county_fips_codes>>
  ELSE county_fips_codes_accessed

\* SynthPop.__init__(country, version, **kwargs); when _path_to_fred_pop
\* raises there is no object
Construct ==
  /\ request.op = "__init__"
  /\ result.status = "pending"
  /\ LET path == _path_to_fred_pop(request.country, request.version,
                                   request.params)
     IN  /\ Returns(path)
         /\ path_to_pop' = IF IsOk(path) THEN <<path.value>> ELSE path_to_pop
  /\ UNCHANGED <<disk, fresh, request, _locations, _county_fips_codes>>

Locations ==
  /\ request.op = "locations"
  /\ Returns(locations)
  /\ locations_accessed
  /\ UNCHANGED <<disk, fresh, path_to_pop, request, _county_fips_codes>>

CountyFipsCodes ==
  /\ request.op = "county_fips_codes"
  /\ Returns(county_fips_codes)
  /\ county_fips_codes_accessed
  /\ UNCHANGED <<disk, fresh, path_to_pop, request>>

ReturnLocationName ==
  /\ request.op = "return_location_name"
  /\ Returns(return_location_name(request.fips_codes))
  /\ locations_accessed
  /\ UNCHANGED <<disk, fresh, path_to_pop, request, _county_fips_codes>>

LocationsToDirs ==
  /\ request.op = "_locations_to_dirs"
  /\ Returns(_locations_to_dirs(request.locations))
  /\ resolver_called(request.locations)
  /\ UNCHANGED <<disk, fresh, path_to_pop, request>>

LoadPeople ==
  /\ request.op = "load_people"
  /\ Returns(load_people(request.locations, request.include_gq_people,
                         request.ord))
  /\ resolver_called(request.locations)
  /\ UNCHANGED <<disk, fresh, path_to_pop, request>>

LoadGqPeople ==
  /\ request.op = "load_gq_people"
  /\ Returns(load_gq_people(request.locations, request.ord))
  /\ resolver_called(request.locations)
  /\ UNCHANGED <<disk, fresh, path_to_pop, request>>

LoadPeopleHouseholdXref ==
  /\ request.op = "load_people_household_xref"
  /\ Returns(load_people_household_xref(request.locations, request.ord))
  /\ resolver_called(request.locations)
  /\ UNCHANGED <<disk, fresh, path_to_pop, request>>

LoadSchools ==
  /\ request.op = "load_schools"
  /\ Returns(load_schools(request.locations, request.ord))
  /\ resolver_called(request.locations)
  /\ UNCHANGED <<disk, fresh, path_to_pop, request>>

LoadWorkplaces ==
  /\ request.op = "load_workplaces"
  /\ Returns(load_workplaces(request.locations, request.ord))
  /\ resolver_called(request.locations)
  /\ UNCHANGED <<disk, fresh, path_to_pop, request>>

LoadHouseholds ==
  /\ request.op = "load_households"
  /\ Returns(load_households(request.locations, request.ord))
  /\ resolver_called(request.locations)
  /\ UNCHANGED <<disk, fresh, path_to_pop, request>>

Next ==
  \/ Locations
  \/ CountyFipsCodes
  \/ ReturnLocationName
  \/ LocationsToDirs

PopulationCount ==
  /\ request.op = "population_count"
  /\ Returns(population_count(request.locations, request.include_gq_people,
                              request.ord))
  /\ resolver_called(request.locations)
  /\ UNCHANGED <<disk, fresh, path_to_pop, request>>

GqPopulationCount ==
  /\ request.op = "gq_population_count"
  /\ Returns(gq_population_count(request.locations, request.ord))
  /\ resolver_called(request.locations)
  /\ UNCHANGED <<disk, fresh, path_to_pop, request>>

GroupQuarterTypes ==
  /\ request.op = "_group_quarter_types"
  /\ Returns(_group_quarter_types)
  /\ UNCHANGED <<disk, fresh, path_to_pop, request, _locations, _county_fips_codes>>

GroupQuarterData ==
  /\ request.op = "_group_quarter_data"
  /\ Returns(_group_quarter_data(request.group_quarter_type,
                                 request.locations, request.ord))
  /\ resolver_called(request.locations)
  /\ UNCHANGED <<disk, fresh, path_to_pop, request>>

NextLoad ==
  \/ LocationsToDirs
  \/ LoadPeople
  \/ LoadGqPeople
  \/ LoadPeopleHouseholdXref
  \/ LoadSchools
  \/ LoadWorkplaces
  \/ LoadHouseholds
  \/ PopulationCount
  \/ GqPopulationCount

Spec == Init /\ [][Next]_vars

SpecLoad == InitLoad /\ [][NextLoad]_vars

NextGq ==
  \/ GroupQuarterTypes
  \/ GroupQuarterData
  \/ LoadGqPeople

SpecGq == InitGq /\ [][NextGq]_vars

-----------------------------------------------------------------------------
(* One object serving call after call: the client makes a call, takes its  *)
(* outcome, and makes another; the dataset stays as it is.                 *)

\* the loader the call names, applied to other arguments
Load(op, locs, include_gq_people, ord) ==
  CASE op = "load_people" -> load_people(locs, include_gq_people, ord)
    [] op = "load_gq_people" -> load_gq_people(locs, ord)
    [] op = "load_people_household_xref" -> load_people_household_xref(locs, ord)
    [] op = "load_schools" -> load_schools(locs, ord)
    [] op = "load_workplaces" -> load_workplaces(locs, ord)
    [] op = "load_households" -> load_households(locs, ord)

\* what the call c returns, computed from the dataset
Outcome(c) ==
  CASE c.op = "locations" -> locations
    [] c.op = "county_fips_codes" -> county_fips_codes
    [] c.op = "return_location_name" -> return_location_name(c.fips_codes)
    [] c.op = "_locations_to_dirs" -> _locations_to_dirs(c.locations)
    [] OTHER -> Load(c.op, c.locations, c.include_gq_people, c.ord)

\* the calls of a session
SessionCalls ==
  {Call("locations"), Call("county_fips_codes")}
  \cup {[Call("return_location_name") EXCEPT !.fips_codes = f] :
          f \in {[type |-> "str", val |-> U2],
                 [type |-> "list", val |-> <<F10, F2>>]}}
  \cup {[Call("_locations_to_dirs") EXCEPT !.locations = l] :
          l \in {<<>>, <<F2>>, <<NameM, NameN>>}}
  \cup {[Call(op) EXCEPT !.locations = <<NameM>>] : op \in Loaders}

InitSession ==
  /\ Constructed
  /\ \E a \in CountyLines(NameA), b \in {<<>>, <<MkLine(NameB, <<F10>>)>>},
        m \in {<<>>} \cup MetroLines :
       index = a \o b \o m
  /\ available \in SUBSET Codes
  /\ files = FilesLacking(available, <<>>)
  /\ request \in SessionCalls
  /\ group_metadata = GroupMetadata
  /\ _locations = <<>>
  /\ _county_fips_codes = <<>>
  /\ result = NoResult
  /\ fresh = <<>>

\* the client takes the outcome and makes its next call
NextCall ==
  /\ path_to_pop # <<>>
  /\ result.status # "pending"
  /\ request' \in SessionCalls
  /\ result' = NoResult
  /\ UNCHANGED <<disk, fresh, path_to_pop, _locations, _county_fips_codes>>

\* before the session, every call of it is made on a new object of the same
\* dataset and its outcome is kept for comparison
FreshObject ==
  /\ fresh = <<>>
  /\ _locations = <<>>
  /\ _county_fips_codes = <<>>
  /\ fresh' = [c \in SessionCalls |-> Outcome(c)]
  /\ UNCHANGED <<disk, path_to_pop, request, result, _locations,
                 _county_fips_codes>>

NextSession ==
  \/ FreshObject
  \/ /\ fresh # <<>>
     /\ \/ Next
        \/ LoadPeople
        \/ LoadGqPeople
        \/ LoadPeopleHouseholdXref
        \/ LoadSchools
        \/ LoadWorkplaces
        \/ LoadHouseholds
        \/ NextCall

SpecSession == InitSession /\ [][NextSession]_vars

\* construction on any machine, and the calls that follow it
InitConstruct ==
  /\ host \in Hosts
  /\ path_to_pop = <<>>
  /\ index = <<MkLine(NameA, <<F2>>), MkLine(NameB, <<F10>>),
               MkLine(NameM, <<F2, F10>>)>>
  /\ available = Codes
  /\ files = FilesLacking(available, <<>>)
  /\ request \in Constructions
  /\ InitObject

NextConstruct ==
  \/ Construct
  \/ NextSession

SpecConstruct == InitConstruct /\ [][NextConstruct]_vars

\* the line of the index with the separator sep after the name and the
\* separator between its codes
SepLine(name, sep, codes, between) ==
  name \o sep \o join(between, codes) \o <<Newline>>

\* what may separate the fields of a line of the index
Separators == {<<Space>>, <<Space, Space>>, <<Tab>>}

\* the registry on indexes whose lines separate their fields with a space,
\* with several spaces or with a tab
InitIndex ==
  /\ Constructed
  /\ \E sa \in Separators, sm \in Separators, between \in Separators,
        m \in BOOLEAN :
       index = <<SepLine(NameA, sa, <<F2>>, <<Space>>)>>
               \o (IF m THEN <<SepLine(NameM, sm, <<F2, F10>>, between)>>
                    ELSE <<>>)
  /\ available \in SUBSET Codes
  /\ files = FilesLacking(available, <<>>)
  /\ request \in RegistryCalls
  /\ InitObject

SpecIndex == InitIndex /\ [][Next]_vars

-----------------------------------------------------------------------------
(* The legacy variant RTISynthPop: people.txt and gq_people.txt are tab     *)
(* separated files with one header line; a file is its table and whether    *)
(* its last line ends with a newline.                                       *)

people_cols ==
  <<"sp_id", "sp_hh_id", "age", "sex", "race", "relate", "school_id", "work_id">>
gq_people_cols == <<"sp_id", "sp_gq_id", "age", "sex">>

\* the dtype that people_cols and gq_people_cols give a column
dtype(c) == IF c = "sex" THEN "|S1" ELSE "Int64"

\* the token for "no such place" of the legacy files
Sentinel == "X"

\* the property RTISynthPop.locations: every line gives an entry
RECURSIVE RTI_locations_lines(_, _)
RTI_locations_lines(lines, acc) ==
  IF lines = <<>> THEN Ok(acc)
  ELSE LET parts == split_once(Head(lines)) IN
       IF Len(parts) # 2
       THEN Raise("ValueError", Head(lines))
       ELSE LET key == strip(parts[1])
                dirs == split(strip(parts[2]))
            IN  RTI_locations_lines(Tail(lines), DictSet(acc, key, dirs))

RTI_locations == RTI_locations_lines(index, <<>>)

\* the property RTISynthPop.county_fips_codes
RTI_county_fips_codes ==
  LET locs_dict == RTI_locations IN
  IF IsOk(locs_dict)
  THEN Ok(Range(concat_lists(DictValues(locs_dict.value))))
  ELSE locs_dict

\* RTISynthPop._locations_to_dirs(locations)
RTI_locations_to_dirs(locs) ==
  locations_to_dirs_loop(locs, {}, RTI_county_fips_codes, RTI_locations)

\* utils.read_csv(fname, cols, **kwargs): the function takes header and
\* converters only; pandas reads the named columns with their dtypes, and a
\* token that is no number cannot be read into an Int64 column
utils_read_csv(dir, fname, cols, kwargs) ==
  IF kwargs \ {"header", "converters"} # {}
  THEN Raise("TypeError", <<dir, fname>>)
  ELSE IF ~(dir \in DOMAIN files /\ fname \in DOMAIN files[dir])
  THEN Raise("FileNotFoundError", <<dir, fname>>)
  ELSE LET f == files[dir][fname] IN
       IF \E i \in DOMAIN f.rows : \E c \in Range(cols) :
            dtype(c) = "Int64" /\ f.rows[i][c] = Sentinel
       THEN Raise("ValueError", <<dir, fname>>)
       ELSE Ok([cols |-> cols,
                rows |-> [i \in DOMAIN f.rows |->
                            [c \in Range(cols) |-> f.rows[i][c]]]])

\* utils.line_count(fname): wc -l counts the newline characters of the file
line_count(dir, fname) ==
  IF ~(dir \in DOMAIN files /\ fname \in DOMAIN files[dir])
  THEN Raise("CalledProcessError", <<dir, fname>>)
  ELSE LET f == files[dir][fname] IN
       Ok(1 + Len(f.rows) - (IF f.final_newline THEN 0 ELSE 1))

\* for dir in dirs: df = read_csv(<dir>/<fname>, cols, ...); t = pd.concat((t, df))
RECURSIVE RTI_read_and_concat(_, _, _, _, _)
RTI_read_and_concat(dirseq, fname, cols, kwargs, t) ==
  IF dirseq = <<>> THEN Ok(t)
  ELSE LET df == utils_read_csv(Head(dirseq), fname, cols, kwargs) IN
       IF ~IsOk(df) THEN df
       ELSE RTI_read_and_concat(Tail(dirseq), fname, cols, kwargs,
                                concat(t, df.value))

\* for dir in dirs: n = n + (line_count(<dir>/<fname>) - 1)
RECURSIVE RTI_count_lines(_, _, _)
RTI_count_lines(dirseq, fname, n) ==
  IF dirseq = <<>> THEN Ok(n)
  ELSE LET c == line_count(Head(dirseq), fname) IN
       IF ~IsOk(c) THEN c
       ELSE RTI_count_lines(Tail(dirseq), fname, n + (c.value - 1))

\* RTISynthPop.load_gq_people(locations)
RTI_load_gq_people(locs, ord) ==
  LET dirs == RTI_locations_to_dirs(locs) IN
  IF ~IsOk(dirs) THEN dirs
  ELSE RTI_read_and_concat(iterate(dirs.value, ord), <<"gq_people.txt">>,
                           gq_people_cols, {"header"},
                           [cols |-> gq_people_cols, rows |-> <<>>])

\* RTISynthPop.load_people(locations, include_gq_people)
RTI_load_people(locs, include_gq_people, ord) ==
  LET dirs == RTI_locations_to_dirs(locs) IN
  IF ~IsOk(dirs) THEN dirs
  ELSE
  LET people == RTI_read_and_concat(iterate(dirs.value, ord), <<"people.txt">>,
                                    people_cols, {"header", "na_values"},
                                    [cols |-> people_cols, rows |-> <<>>])
  IN
  IF ~IsOk(people) \/ ~include_gq_people THEN people
  ELSE LET gq == RTI_load_gq_people(locs, ord) IN
       IF ~IsOk(gq) THEN gq ELSE Ok(concat(people.value, gq.value))

\* RTISynthPop.gq_population_count(locations)
RTI_gq_population_count(locs, ord) ==
  LET dirs == RTI_locations_to_dirs(locs) IN
  IF ~IsOk(dirs) THEN dirs
  ELSE RTI_count_lines(iterate(dirs.value, ord), <<"gq_people.txt">>, 0)

\* RTISynthPop.population_count(locations, include_gq_people)
RTI_population_count(locs, include_gq_people, ord) ==
  LET dirs == RTI_locations_to_dirs(locs) IN
  IF ~IsOk(dirs) THEN dirs
  ELSE
  LET n == RTI_count_lines(iterate(dirs.value, ord), <<"people.txt">>, 0) IN
  IF ~IsOk(n) \/ ~include_gq_people THEN n
  ELSE LET gq == RTI_gq_population_count(locs, ord) IN
       IF ~IsOk(gq) THEN gq ELSE Ok(n.value + gq.value)

\* a legacy file: the rows after its header, and whether its last line ends
\* with a newline
LegacyFile(cols, cells, final_newline) ==
  [cols |-> cols, rows |-> Table(cols, cells).rows,
   final_newline |-> final_newline]

\* the legacy files of a county directory: none stands in the fields of a
\* person without a school or a workplace, and people_nl and gq_nl tell whether the files end with a newline
LegacyCountyFiles(d, none, people_nl, gq_nl) ==
  IF d = F2
  THEN (<<"people.txt">> :>
          LegacyFile(people_cols,
                     << <<"21", "201", "40", "M", "1", "0", none, "501">>,
                        <<"22", "201", "8", "F", "1", "2", "401", none>> >>,
                     people_nl))
    @@ (<<"gq_people.txt">> :>
          LegacyFile(gq_people_cols, << <<"29", "301", "19", "M">> >>, gq_nl))
  ELSE (<<"people.txt">> :>
          LegacyFile(people_cols,
                     << <<"101", "211", "33", "F", "2", "0", "402", "502">> >>,
                     TRUE))
    @@ (<<"gq_people.txt">> :>
          LegacyFile(gq_people_cols,
                     << <<"108", "311", "20", "F">>, <<"109", "311", "21", "M">> >>,
                     TRUE))

LegacyCalls ==
  {[Call(op) EXCEPT !.locations = l, !.include_gq_people = g, !.ord = o] :
     op \in {"load_people", "population_count"},
     l \in LoadLists, g \in BOOLEAN, o \in Orders}
  \cup {[Call(op) EXCEPT !.locations = l, !.ord = o] :
          op \in {"load_gq_people", "gq_population_count"},
          l \in LoadLists, o \in Orders}

\* an RTISynthPop object on a legacy dataset
InitLegacy ==
  /\ Constructed
  /\ index = <<MkLine(NameA, <<F2>>), MkLine(NameB, <<F10>>),
               MkLine(NameM, <<F2, F10>>)>>
  /\ available = Codes
  /\ \E none \in {Sentinel, "0"}, people_nl \in BOOLEAN, gq_nl \in BOOLEAN :
       files = [d \in Codes |-> LegacyCountyFiles(d, none, people_nl, gq_nl)]
  /\ request \in LegacyCalls
  /\ InitObject

\* the property reads in RTISynthPop._locations_to_dirs
RTI_resolver_called(locs) ==
  IF locs = <<>> THEN UNCHANGED <<_locations, _county_fips_codes>>
  ELSE /\ _locations' = IF IsOk(RTI_locations) THEN <<RTI_locations.value>>
                        ELSE _locations
       /\ _county_fips_codes' =
            IF IsOk(RTI_county_fips_codes) THEN <<RTI_county_fips_codes.value>>
            ELSE _county_fips_codes

RTILoadPeople ==
  /\ request.op = "load_people"
  /\ Returns(RTI_load_people(request.locations, request.include_gq_people,
                             request.ord))
  /\ RTI_resolver_called(request.locations)
  /\ UNCHANGED <<disk, fresh, path_to_pop, request>>

RTILoadGqPeople ==
  /\ request.op = "load_gq_people"
  /\ Returns(RTI_load_gq_people(request.locations, request.ord))
  /\ RTI_resolver_called(request.locations)
  /\ UNCHANGED <<disk, fresh, path_to_pop, request>>

RTIPopulationCount ==
  /\ request.op = "population_count"
  /\ Returns(RTI_population_count(request.locations, request.include_gq_people,
                                  request.ord))
  /\ RTI_resolver_called(request.locations)
  /\ UNCHANGED <<disk, fresh, path_to_pop, request>>

RTIGqPopulationCount ==
  /\ request.op = "gq_population_count"
  /\ Returns(RTI_gq_population_count(request.locations, request.ord))
  /\ RTI_resolver_called(request.locations)
  /\ UNCHANGED <<disk, fresh, path_to_pop, request>>

NextLegacy ==
  \/ RTILoadPeople
  \/ RTILoadGqPeople
  \/ RTIPopulationCount
  \/ RTIGqPopulationCount

SpecLegacy == InitLegacy /\ [][NextLegacy]_vars

-----------------------------------------------------------------------------
(* The properties.                                                         *)

Done == result.status # "pending"

\* an identifier the resolver accepts: a known FIPS code or a location name
Known(id) ==
  /\ IsOk(locations)
  /\ \/ id \in county_fips_codes.value
     \/ DictHas(locations.value, id)

\* the directories one accepted identifier stands for
DirsOf(id) ==
  IF id \in county_fips_codes.value THEN {id}
  ELSE Range(DictGet(locations.value, id))

\* what a caller sees of a loader's outcome when it counts rows
RowCount(r) == <<r.status, IF IsOk(r) THEN Len(r.value.rows) ELSE 0>>

\* the rows of file fname in the directories dirs, all told
RECURSIVE TotalRows(_, _)
TotalRows(dirs, fname) ==
  IF dirs = {} THEN 0
  ELSE LET d == CHOOSE x \in dirs : TRUE
       IN  Len(files[d][fname].rows) + TotalRows(dirs \ {d}, fname)

\* C1: for a list of identifiers each of which is a known county FIPS code or
\* a known location name, _locations_to_dirs returns exactly the union, over
\* the identifiers, of {id} for a FIPS code and of the FIPS codes of
\* locations[id] for a name: nothing more and nothing less.
C1_ResolverUnion ==
  (/\ request.op = "_locations_to_dirs"
   /\ Done
   /\ \A i \in DOMAIN request.locations : Known(request.locations[i]))
  => result = Ok(UNION {DirsOf(id) : id \in Range(request.locations)})

C1_Witness ==
  /\ request.op = "_locations_to_dirs"
  /\ Done
  /\ IsOk(result)
  /\ Len(request.locations) = 2
  /\ request.locations[1] \in county_fips_codes.value
  /\ request.locations[2] \notin county_fips_codes.value
  /\ Cardinality(result.value) = 2

\* C2: the directory set does not depend on the order or the repetition of
\* the identifiers, and overlapping identifiers contribute each FIPS code
\* once, so that a loader takes the rows of each county file exactly once.
C2_OrderAndRepetition ==
  /\ (request.op = "_locations_to_dirs" /\ Done /\ IsOk(result))
     => /\ \A l \in SeqsOf(Range(request.locations), 0, MaxLocs) :
             Range(l) = Range(request.locations)
             => _locations_to_dirs(l) = result
        /\ result.value =
             UNION {_locations_to_dirs(<<id>>).value : id \in Range(request.locations)}
  /\ (/\ request.op \in {"load_people", "load_people_household_xref"}
      /\ ~request.include_gq_people \/ request.op # "load_people"
      /\ Done
      /\ IsOk(result))
     => LET dirs == _locations_to_dirs(request.locations).value
            fname == IF request.op = "load_people" THEN <<"person.txt">>
                     ELSE <<"person-", "household", ".txt">>
            key == IF request.op = "load_people" THEN "ID" ELSE "PERSON"
        IN  /\ Len(result.value.rows) = TotalRows(dirs, fname)
            /\ \A d \in dirs : \A j \in DOMAIN files[d][fname].rows :
                 Cardinality({i \in DOMAIN result.value.rows :
                                result.value.rows[i]["ID"]
                                  = files[d][fname].rows[j][key]}) = 1

C2_Witness ==
  /\ request.op = "load_people"
  /\ ~request.include_gq_people
  /\ Done
  /\ IsOk(result)
  /\ request.locations = <<NameM, NameA>>
  /\ Range(DictGet(locations.value, NameM)) = Codes
  /\ Len(result.value.rows) = 3

\* C3: when an identifier of the list is neither a known FIPS code nor a known
\* location name, the call fails with a KeyError that carries that
\* identifier, whatever the other identifiers are, and returns no table and
\* no directory set.
C3_UnknownIdentifier ==
  (/\ Done
   /\ IsOk(locations)
   /\ \E i \in DOMAIN request.locations : ~Known(request.locations[i]))
  => /\ result.status = "KeyError"
     /\ \E i \in DOMAIN request.locations :
          /\ result.value = request.locations[i]
          /\ ~Known(request.locations[i])

C3_Witness ==
  /\ request.op = "load_households"
  /\ Done
  /\ request.locations = <<NameA, NameN>>
  /\ Known(NameA)
  /\ result = Raise("KeyError", NameN)

\* C4: for every loader and every location name M with FIPS list f1..fn,
\* loading [M] gives the same row count as loading the list of the
\* single-county names of f1..fn and as loading the list [f1..fn].
C4_MetroEquivalence ==
  (/\ request.op \in Loaders
   /\ Done
   /\ Len(request.locations) = 1
   /\ IsOk(locations)
   /\ DictHas(locations.value, request.locations[1])
   /\ request.locations[1] \notin county_fips_codes.value)
  => LET fips == DictGet(locations.value, request.locations[1])
         names == {n \in DictKeys(locations.value) \ county_fips_codes.value :
                     Len(DictGet(locations.value, n)) = 1}
         load(l) == RowCount(Load(request.op, l, request.include_gq_people,
                                  request.ord))
     IN  /\ load(fips) = RowCount(result)
         /\ \A ns \in [DOMAIN fips -> names] :
              (\A i \in DOMAIN fips : DictGet(locations.value, ns[i]) = <<fips[i]>>)
              => load(ns) = RowCount(result)

C4_Witness ==
  /\ request.op = "load_gq_people"
  /\ Done
  /\ IsOk(result)
  /\ request.locations = <<NameM>>
  /\ DictGet(locations.value, NameM) = <<F10, F2>>
  /\ DictHas(locations.value, NameB)
  /\ Len(result.value.rows) = 3

\* C5: for two disjoint single-FIPS locations A and B, load_people([A, B]) and
\* load_households([A, B]) have exactly the rows of the same loader on [A]
\* plus its rows on [B].
C5_MergeAdds ==
  (/\ request.op \in {"load_people", "load_households"}
   /\ Done
   /\ Len(request.locations) = 2
   /\ \A i \in 1..2 : /\ Known(request.locations[i])
                      /\ Cardinality(DirsOf(request.locations[i])) = 1
   /\ DirsOf(request.locations[1]) \cap DirsOf(request.locations[2]) = {})
  => LET load(l) == Load(request.op, l, request.include_gq_people, request.ord)
         a == load(<<request.locations[1]>>)
         b == load(<<request.locations[2]>>)
     IN  /\ IsOk(result) <=> (IsOk(a) /\ IsOk(b))
         /\ IsOk(result)
            => Len(result.value.rows) = Len(a.value.rows) + Len(b.value.rows)

C5_Witness ==
  /\ request.op = "load_people"
  /\ request.include_gq_people
  /\ Done
  /\ IsOk(result)
  /\ request.locations = <<NameA, NameB>>
  /\ Len(result.value.rows) = 6

\* the codes of a call of return_location_name, each padded to five characters
Padded(fips_codes) ==
  IF fips_codes.type = "list"
  THEN {zfill(fips_codes.val[i], PadWidth) : i \in DOMAIN fips_codes.val}
  ELSE {zfill(fips_codes.val, PadWidth)}

\* C6: round trip: for every name of locations(),
\* return_location_name(sorted(locations()[name])) returns that name.
C6_RoundTrip ==
  (request.op = "return_location_name" /\ Done /\ IsOk(locations))
  => \A name \in DictKeys(locations.value) :
       request.fips_codes =
         [type |-> "list", val |-> sort(DictGet(locations.value, name))]
       => result = Ok(name)

\* C7: return_location_name returns a name only when the FIPS set of that
\* location is exactly the set of the supplied codes; when no location has
\* exactly that set (the supplied set is a strict subset or superset of the
\* candidates, or matches none) it fails with a ValueError that carries the
\* supplied codes.
C7_ExactSetOnly ==
  (request.op = "return_location_name" /\ Done /\ IsOk(locations))
  => /\ IsOk(result)
        => /\ DictHas(locations.value, result.value)
           /\ Range(DictGet(locations.value, result.value))
                = Padded(request.fips_codes)
     /\ (\A name \in DictKeys(locations.value) :
           Range(DictGet(locations.value, name)) # Padded(request.fips_codes))
        => /\ result.status = "ValueError"
           /\ Range(result.value) = Padded(request.fips_codes)

C7_Witness ==
  /\ request.op = "return_location_name"
  /\ Done
  /\ result.status = "ValueError"
  /\ Padded(request.fips_codes) = {F2}
  /\ DictHas(locations.value, NameM)
  /\ Range(DictGet(locations.value, NameM)) = {F2, F10}
  /\ available = Codes

\* C8: return_location_name canonicalizes its input before the lookup: a
\* single code and the one-element list of it, a code without its leading
\* zeros and its padded form, and every permutation of a list give the same
\* result, the supplied codes and each location's FIPS list both being sorted
\* before they are joined and compared.
C8_Canonicalization ==
  (request.op = "return_location_name" /\ Done /\ IsOk(locations))
  => LET codes == IF request.fips_codes.type = "list"
                  THEN request.fips_codes.val ELSE <<request.fips_codes.val>>
         call(l) == return_location_name([type |-> "list", val |-> l])
     IN  /\ call(codes) = result
         /\ call([i \in DOMAIN codes |-> zfill(codes[i], PadWidth)]) = result
         /\ \A l \in [DOMAIN codes -> Range(codes)] :
              (\A c \in Range(codes) :
                 Cardinality({i \in DOMAIN l : l[i] = c})
                   = Cardinality({i \in DOMAIN codes : codes[i] = c}))
              => call(l) = result
         /\ (\E name \in DictKeys(locations.value) :
               sort(DictGet(locations.value, name))
                 = canonical_fips(request.fips_codes))
            => /\ IsOk(result)
               /\ sort(DictGet(locations.value, result.value))
                    = canonical_fips(request.fips_codes)

\* C9: locations() maps each name of the index to its FIPS codes restricted
\* to the codes that are subdirectories of the dataset root: a code without a
\* directory is in no list, and a name none of whose codes has a directory is
\* not in the mapping.
C9_FilteredLists ==
  (request.op = "locations" /\ Done /\ IsOk(result))
  => \A i \in DOMAIN result.value :
       /\ result.value[i][2] # <<>>
       /\ Range(result.value[i][2]) \subseteq available

\* C10: each FIPS set maps to one location name: when two names of the index
\* carry the same FIPS set, return_location_name for that set fails instead
\* of returning one of the two names.
C10_DuplicateSetFails ==
  (/\ request.op = "return_location_name"
   /\ Done
   /\ IsOk(locations)
   /\ \E n1, n2 \in DictKeys(locations.value) :
        /\ n1 # n2
        /\ Range(DictGet(locations.value, n1)) = Padded(request.fips_codes)
        /\ Range(DictGet(locations.value, n2)) = Padded(request.fips_codes))
  => ~IsOk(result)

\* C11: two calls of locations(), whatever the object does in between and the
\* disk being as it was, give identical mappings: every call returns the
\* mapping it leaves in self._locations, and that mapping, once there, is the
\* same names with the same lists in the same order after every operation.
C11_LocationsIdempotent ==
  [][/\ Locations => result' = Ok(_locations'[1])
     /\ _locations # <<>> => _locations' = _locations]_vars

C11_Witness ==
  /\ request.op = "locations"
  /\ result.status # "pending"
  /\ _county_fips_codes # <<>>
  /\ result = Ok(_locations[1])
  /\ Len(result.value) = 3

\* C12: county_fips_codes is exactly the union of the FIPS lists of the
\* entries of locations(): a code is in the set if and only if it is in the
\* list of at least one location.
C12_CountyFipsUnion ==
  (request.op = "county_fips_codes" /\ Done /\ IsOk(locations))
  => /\ IsOk(result)
     /\ \A c \in SeqsOf({Digit(0), Digit(1), Digit(2)}, PadWidth, PadWidth)
              \cup result.value :
          c \in result.value
          <=> \E i \in DOMAIN locations.value :
                \E j \in DOMAIN locations.value[i][2] :
                  locations.value[i][2][j] = c

C12_Witness ==
  /\ request.op = "county_fips_codes"
  /\ Done
  /\ result = Ok({F2, F10})
  /\ Len(locations.value) = 2
  /\ DictHas(locations.value, NameM)

\* the files a loader reads in each of the resolved directories
ExpectedFiles(op, include_gq_people) ==
  LET types == Range(_group_quarter_types.value)
      gq == {<<"gq_person.txt">>}
            \cup {<<"person-", t, ".txt">> : t \in types}
            \cup {<<t, "-block_group.txt">> : t \in types}
  IN  CASE op = "load_people" ->
             {<<"person.txt">>} \cup (IF include_gq_people THEN gq ELSE {})
        [] op = "load_gq_people" -> gq
        [] op = "load_people_household_xref" -> {<<"person-", "household", ".txt">>}
        [] op = "load_schools" -> {<<"school.txt">>}
        [] op = "load_workplaces" -> {<<"workplace.txt">>}
        [] op = "load_households" ->
             {<<"household.txt">>, <<"household", "-block_group.txt">>}

\* the resolved directories and the files of them that the call expects but
\* the dataset does not have
Resolved == _locations_to_dirs(request.locations)
Absent ==
  {df \in Resolved.value \X ExpectedFiles(request.op, request.include_gq_people) :
     df[1] \notin DOMAIN files \/ df[2] \notin DOMAIN files[df[1]]}

\* C13: load_people returns exactly the columns ID, AGE, sex, race,
\* household_relationship, household_income, in that order, with and without
\* the group-quarters people and for one or more resolved directories; no row
\* carries ROLE, PLACE, Block_Group or gq_type.
C13_PeopleColumns ==
  (request.op = "load_people" /\ Done)
  => /\ IsOk(result)
        => /\ result.value.cols
                = <<"ID", "AGE", "sex", "race", "household_relationship",
                    "household_income">>
           /\ \A i \in DOMAIN result.value.rows :
                DOMAIN result.value.rows[i] = Range(result.value.cols)
     /\ (IsOk(Resolved) /\ Resolved.value # {} /\ Absent = {}) => IsOk(result)

C13_Witness ==
  /\ request.op = "load_people"
  /\ request.include_gq_people
  /\ Done
  /\ IsOk(result)
  /\ Resolved.value = Codes
  /\ Len(result.value.rows) = 6
  /\ result.value.cols = output_cols
  /\ "gq_type" \in Range(load_gq_people(request.locations, request.ord).value.cols)

\* every household of the resolved directories has a line in a
\* household-block_group.txt of these directories
HouseholdsRecorded ==
  \A d \in Resolved.value : \A i \in DOMAIN files[d][<<"household.txt">>].rows :
    \E e \in Resolved.value :
      \E j \in DOMAIN files[e][<<"household", "-block_group.txt">>].rows :
        files[e][<<"household", "-block_group.txt">>].rows[j]["PLACE"]
          = files[d][<<"household.txt">>].rows[i]["ID"]

\* every group-quarters person of the resolved directories is in a
\* person-<type>.txt whose place has a line in the <type>-block_group.txt of
\* the same directory
GqPeopleRecorded ==
  \A d \in Resolved.value : \A i \in DOMAIN files[d][<<"gq_person.txt">>].rows :
    \E e \in Resolved.value : \E t \in Range(_group_quarter_types.value) :
      \E j \in DOMAIN files[e][<<"person-", t, ".txt">>].rows :
        /\ files[e][<<"person-", t, ".txt">>].rows[j]["PERSON"]
             = files[d][<<"gq_person.txt">>].rows[i]["ID"]
        /\ \E k \in DOMAIN files[e][<<t, "-block_group.txt">>].rows :
             files[e][<<t, "-block_group.txt">>].rows[k]["PLACE"]
               = files[e][<<"person-", t, ".txt">>].rows[j]["PLACE"]

\* C14: after load_households or load_gq_people no returned row has a missing
\* Block_Group, every household and every group-quarters person of the
\* dataset having a recorded block group.
C14_NoMissingBlockGroup ==
  (/\ request.op \in {"load_households", "load_gq_people"}
   /\ Done
   /\ IsOk(result)
   /\ IF request.op = "load_households" THEN HouseholdsRecorded
      ELSE GqPeopleRecorded)
  => /\ "Block_Group" \in Range(result.value.cols)
     /\ \A i \in DOMAIN result.value.rows :
          result.value.rows[i]["Block_Group"] # NaN

C14_Witness ==
  /\ request.op = "load_households"
  /\ Done
  /\ IsOk(result)
  /\ HouseholdsRecorded
  /\ request.locations = <<NameB, NameA>>
  /\ {result.value.rows[i]["Block_Group"] : i \in DOMAIN result.value.rows}
       = {"bg2", "bg10"}

\* the lines of the person-<type>.txt files of the resolved directories that
\* are about person id
GqLinesOf(id) ==
  UNION {{<<et[1], et[2], j>> :
            j \in {k \in DOMAIN files[et[1]][<<"person-", et[2], ".txt">>].rows :
                     files[et[1]][<<"person-", et[2], ".txt">>].rows[k]["PERSON"]
                       = id}} :
         et \in Resolved.value \X Range(_group_quarter_types.value)}

\* C15: load_gq_people returns exactly one row per row of the gq_person.txt
\* files of the resolved directories: the left join on the person ID adds the
\* columns ROLE, PLACE, Block_Group and gq_type, adds no row and drops none,
\* and the join key PERSON is not a column of the result.
C15_GqPeopleRows ==
  (/\ request.op = "load_gq_people"
   /\ Done
   /\ IsOk(result)
   /\ \A d \in Resolved.value : \A i \in DOMAIN files[d][<<"gq_person.txt">>].rows :
        Cardinality(GqLinesOf(files[d][<<"gq_person.txt">>].rows[i]["ID"])) <= 1)
  => /\ Len(result.value.rows) = TotalRows(Resolved.value, <<"gq_person.txt">>)
     /\ \A d \in Resolved.value : \A i \in DOMAIN files[d][<<"gq_person.txt">>].rows :
          Cardinality(
            {k \in DOMAIN result.value.rows :
               \A c \in Range(gq_person_cols) :
                 result.value.rows[k][c] = files[d][<<"gq_person.txt">>].rows[i][c]})
            = 1
     /\ Range(result.value.cols)
          = Range(gq_person_cols) \cup {"ROLE", "PLACE", "Block_Group", "gq_type"}
     /\ Len(result.value.cols) = Cardinality(Range(result.value.cols))
     /\ SubSeq(result.value.cols, 1, Len(gq_person_cols)) = gq_person_cols

C15_Witness ==
  /\ request.op = "load_gq_people"
  /\ Done
  /\ IsOk(result)
  /\ request.locations = <<NameB>>
  /\ Len(result.value.rows) = 2
  /\ \A i \in 1..2 : /\ result.value.rows[i]["gq_type"] = "college_dorm"
                     /\ result.value.rows[i]["PLACE"] = "d101"
                     /\ result.value.rows[i]["Block_Group"] = "bg10"

\* C16: load_schools and load_workplaces return a table with no two identical
\* rows, in which every distinct row of the files of the resolved directories
\* appears exactly once; for disjoint locations A and B the row count for
\* [A, B] is at most the count for [A] plus the count for [B].
C16_NoDuplicateRows ==
  (request.op \in {"load_schools", "load_workplaces"} /\ Done /\ IsOk(result))
  => LET fname == IF request.op = "load_schools" THEN <<"school.txt">>
                  ELSE <<"workplace.txt">>
         rows == result.value.rows
         load(l) == Load(request.op, l, request.include_gq_people, request.ord)
     IN  /\ \A i, j \in DOMAIN rows : rows[i] = rows[j] => i = j
         /\ Range(rows) = UNION {Range(files[d][fname].rows) : d \in Resolved.value}
         /\ (/\ Len(request.locations) = 2
             /\ DirsOf(request.locations[1]) \cap DirsOf(request.locations[2]) = {})
            => Len(rows) <= Len(load(<<request.locations[1]>>).value.rows)
                            + Len(load(<<request.locations[2]>>).value.rows)

C16_Witness ==
  /\ request.op = "load_schools"
  /\ Done
  /\ IsOk(result)
  /\ request.locations = <<NameA, NameB>>
  /\ Len(result.value.rows) = 3
  /\ TotalRows(Resolved.value, <<"school.txt">>) = 4

\* C17: if a file the loader expects (the entity file, a cross-reference file,
\* or the person-<type>.txt or <type>-block_group.txt of a group-quarters
\* type) is absent from one of the resolved directories, the whole call fails
\* with FileNotFoundError and returns no table, whichever place the directory
\* has in the iteration.
C17_MissingFileIsFatal ==
  (request.op \in Loaders /\ Done /\ IsOk(Resolved) /\ Absent # {})
  => /\ result.status = "FileNotFoundError"
     /\ result.value \in Absent
     /\ \A o \in Orders :
          Load(request.op, request.locations, request.include_gq_people, o).status
            = "FileNotFoundError"

C17_Witness ==
  /\ request.op = "load_households"
  /\ Done
  /\ Resolved = Ok(Codes)
  /\ request.ord = <<F10, F2>>
  /\ Absent = {<<F2, <<"household", "-block_group.txt">>>>}
  /\ result = Raise("FileNotFoundError", <<F2, <<"household", "-block_group.txt">>>>)

\* C18: load_people_household_xref returns the concatenation of the
\* person-household.txt rows of the resolved directories, one row per line,
\* with the columns ID, PLACE, ROLE, ID being the PERSON of the file; its row
\* count is the sum of the row counts of the files.
C18_XrefConcatenation ==
  (request.op = "load_people_household_xref" /\ Done /\ IsOk(result))
  => LET ds == iterate(Resolved.value, request.ord)
         lines(d) == files[d][<<"person-", "household", ".txt">>].rows
         row(r) == [c \in {"ID", "PLACE", "ROLE"} |->
                      IF c = "ID" THEN r["PERSON"] ELSE r[c]]
     IN  /\ result.value.cols = <<"ID", "PLACE", "ROLE">>
         /\ result.value.rows
              = concat_lists([i \in DOMAIN ds |->
                                [j \in DOMAIN lines(ds[i]) |-> row(lines(ds[i])[j])]])
         /\ Len(result.value.rows)
              = TotalRows(Resolved.value, <<"person-", "household", ".txt">>)

C18_Witness ==
  /\ request.op = "load_people_household_xref"
  /\ Done
  /\ IsOk(result)
  /\ request.locations = <<NameM>>
  /\ request.ord = <<F10, F2>>
  /\ [i \in 1..Len(result.value.rows) |-> result.value.rows[i]["ID"]]
       = <<"p101", "p21", "p22">>

\* the dataset root a construction is configured with: the FRED_DATA of the
\* call or of the environment, else data under the FRED_HOME of the call or
\* of the environment
ConfiguredRoot ==
  LET home == IF request.params.FRED_HOME # NotSet THEN request.params.FRED_HOME
              ELSE host.environ.FRED_HOME
  IN  IF request.params.FRED_DATA # NotSet THEN request.params.FRED_DATA
      ELSE IF host.environ.FRED_DATA # NotSet THEN host.environ.FRED_DATA
      ELSE IF home # NotSet THEN Given(path_join(home[1], <<"data">>))
      ELSE NotSet

C19_ConstructionOutcome ==
  (request.op = "__init__" /\ Done /\ ConfiguredRoot # NotSet)
  => LET root == ConfiguredRoot[1]
         country == path_join(root, <<"country", request.country>>)
         version == path_join(country, <<request.version>>)
     IN  /\ ~isdir(root)
            => /\ result = NotFound("FRED_DATA", "", Given(root))
               /\ path_to_pop = <<>>
         /\ (isdir(root) /\ ~isdir(country))
            => /\ result = NotFound("country", request.country, Given(root))
               /\ path_to_pop = <<>>
         /\ (isdir(root) /\ isdir(country) /\ ~isdir(version))
            => /\ result = NotFound("version", request.version, Given(country))
               /\ path_to_pop = <<>>
         /\ (isdir(root) /\ isdir(country) /\ isdir(version))
            => /\ IsOk(result)
               /\ path_to_pop = <<result.value>>
               /\ result.value.parts = abspath(version).parts

C19_PathIsVersionDirectory ==
  path_to_pop # <<>>
  => /\ path_to_pop[1].abs
     /\ path_to_pop[1].parts \in host.directories
     /\ \E r \in Roots, c \in Countries, v \in Versions :
          path_to_pop[1].parts = r \o <<"country", c, v>>

HouseholdLinesOf(id) ==
  UNION {{<<e, j>> :
            j \in {k \in DOMAIN files[e][<<"household", "-block_group.txt">>].rows :
                     files[e][<<"household", "-block_group.txt">>].rows[k]["PLACE"]
                       = id}} :
         e \in Resolved.value}

\* C20: load_households returns exactly one row per row of the household.txt
\* files of the resolved directories, with the columns ID, LAT, LON, ELEV,
\* income, Block_Group in that order however many directories are merged:
\* the left join with the concatenated household-block_group.txt tables
\* neither multiplies nor drops a household, PLACE is dropped, and CONTAINER
\* is Block_Group.
C20_HouseholdRows ==
  (/\ request.op = "load_households"
   /\ Done
   /\ IsOk(result)
   /\ \A d \in Resolved.value : \A i \in DOMAIN files[d][<<"household.txt">>].rows :
        Cardinality(HouseholdLinesOf(files[d][<<"household.txt">>].rows[i]["ID"]))
          <= 1)
  => LET rows == result.value.rows IN
     /\ result.value.cols = <<"ID", "LAT", "LON", "ELEV", "income", "Block_Group">>
     /\ Len(rows) = TotalRows(Resolved.value, <<"household.txt">>)
     /\ \A d \in Resolved.value : \A i \in DOMAIN files[d][<<"household.txt">>].rows :
          LET h == files[d][<<"household.txt">>].rows[i]
              at == {k \in DOMAIN rows : \A c \in Range(household_cols) :
                                           rows[k][c] = h[c]}
          IN  /\ Cardinality(at) = 1
              /\ \A k \in at :
                   /\ DOMAIN rows[k] = Range(result.value.cols)
                   /\ \A ej \in HouseholdLinesOf(h["ID"]) :
                        rows[k]["Block_Group"]
                          = files[ej[1]][<<"household", "-block_group.txt">>]
                              .rows[ej[2]]["CONTAINER"]

C20_Witness ==
  /\ request.op = "load_households"
  /\ Done
  /\ IsOk(result)
  /\ request.locations = <<NameM>>
  /\ Resolved.value = Codes
  /\ Len(result.value.rows) = 3
  /\ \E k \in 1..3 : /\ result.value.rows[k]["ID"] = "h102"
                     /\ result.value.rows[k]["Block_Group"] = "bg10"

\* C21: load_people(L, include_gq_people=True) has the rows of
\* load_people(L, include_gq_people=False) followed by the rows of
\* load_gq_people(L): its row count is the sum of the two counts, and no row
\* of either table is lost or duplicated.
C21_PeopleWithGq ==
  (request.op = "load_people" /\ request.include_gq_people /\ Done)
  => LET people == load_people(request.locations, FALSE, request.ord)
         gq == load_gq_people(request.locations, request.ord)
         seen(r) == [c \in Range(output_cols) |->
                       IF c \in DOMAIN r THEN r[c] ELSE NaN]
     IN  /\ IsOk(result) <=> (IsOk(people) /\ IsOk(gq))
         /\ IsOk(result)
            => /\ Len(result.value.rows)
                    = Len(people.value.rows) + Len(gq.value.rows)
               /\ result.value.rows
                    = people.value.rows
                      \o [i \in DOMAIN gq.value.rows |-> seen(gq.value.rows[i])]

C21_Witness ==
  /\ request.op = "load_people"
  /\ request.include_gq_people
  /\ Done
  /\ IsOk(result)
  /\ request.locations = <<NameM>>
  /\ Len(load_people(request.locations, FALSE, request.ord).value.rows) = 3
  /\ Len(load_gq_people(request.locations, request.ord).value.rows) = 3
  /\ result.value.rows[6]["household_income"] = NaN

\* the lines of the metadata file are all of the form "<group>,person-<type>.txt"
WellFormed(lines) ==
  \A i \in DOMAIN lines :
    \E g, t \in DOMAIN Spell \ {"person-", "txt"} :
      lines[i] \in {MetaLine(g, t), SubSeq(MetaLine(g, t), 1, Len(MetaLine(g, t)) - 1)}

\* the <type> that a well-formed line lists
TypeOf(line) ==
  CHOOSE t \in DOMAIN Spell :
    \E g \in DOMAIN Spell :
      line \in {MetaLine(g, t), SubSeq(MetaLine(g, t), 1, Len(MetaLine(g, t)) - 1)}

\* C22: on a metadata file whose lines after the header all have the form
\* "<group>,person-<type>.txt", _group_quarter_types returns the listed types
\* (in the order of the file) without those of schools and workplaces, which
\* are grade, school and workplace; every other listed type, household
\* included, is returned and is joined per directory by load_gq_people.
C22_GroupQuarterTypes ==
  /\ (request.op = "_group_quarter_types" /\ Done /\ WellFormed(group_metadata))
      => LET listed == [i \in DOMAIN group_metadata |-> TypeOf(group_metadata[i])]
             gq(t) == t \notin {"grade", "school", "workplace"}
         IN  result = Ok(SelectSeq(listed, gq))
  /\ (request.op = "load_gq_people" /\ Done /\ IsOk(Resolved)
        /\ WellFormed(group_metadata))
      => \A i \in DOMAIN group_metadata :
           LET t == TypeOf(group_metadata[i]) IN
           t \notin {"grade", "school", "workplace"}
           => \A d \in Resolved.value :
                LET f == <<"person-", t, ".txt">> IN
                IF {f, <<t, "-block_group.txt">>} \subseteq DOMAIN files[d]
                THEN IsOk(result)
                     => \A j \in DOMAIN files[d][f].rows :
                          \A r \in Range(result.value.rows) :
                            r["ID"] = files[d][f].rows[j]["PERSON"]
                            => r["gq_type"] = t
                ELSE ~IsOk(result)

C22_Witness ==
  /\ request.op = "_group_quarter_types"
  /\ Done
  /\ group_metadata = <<MetaLine("grade", "grade")>> \o GroupMetadata
  /\ result = Ok(<<"college_dorm", "household">>)

C22_WitnessJoined ==
  /\ request.op = "load_gq_people"
  /\ Done
  /\ group_metadata = GroupMetadata
  /\ IsOk(result)
  /\ \E r \in Range(result.value.rows) : r["gq_type"] = "college_dorm"

\* the rows that person-<type>.txt of directory d gives: each of its rows with
\* the block group of its facility and the type
GqRowsOf(type, d) ==
  LET persons == files[d][<<"person-", type, ".txt">>].rows
      places == files[d][<<type, "-block_group.txt">>].rows
      block_group(p) ==
        IF \E j \in DOMAIN places : places[j]["PLACE"] = p
        THEN places[CHOOSE j \in DOMAIN places : places[j]["PLACE"] = p]["CONTAINER"]
        ELSE NaN
  IN  [i \in DOMAIN persons |->
         [c \in {"PERSON", "ROLE", "PLACE", "Block_Group", "gq_type"} |->
            CASE c = "Block_Group" -> block_group(persons[i]["PLACE"])
              [] c = "gq_type" -> type
              [] OTHER -> persons[i][c]]]

RECURSIVE GqRowsOver(_, _)
GqRowsOver(type, dirseq) ==
  IF dirseq = <<>> THEN <<>>
  ELSE GqRowsOf(type, Head(dirseq)) \o GqRowsOver(type, Tail(dirseq))

\* C23: for a group-quarters type and a location list that resolves to at
\* least one directory, _group_quarter_data returns, directory after directory,
\* one row per row of person-<type>.txt with the Block_Group that
\* <type>-block_group.txt gives for its PLACE and with gq_type equal to the
\* type; it fails when a resolved directory lacks one of the two files.
C23_GroupQuarterData ==
  (request.op = "_group_quarter_data" /\ Done /\ IsOk(Resolved)
     /\ Resolved.value # {})
  => LET type == request.group_quarter_type
         needed == {<<"person-", type, ".txt">>, <<type, "-block_group.txt">>}
         dirs == iterate(Resolved.value, request.ord)
     IN  IF \A d \in Resolved.value : needed \subseteq DOMAIN files[d]
         THEN /\ IsOk(result)
              /\ result.value.rows = GqRowsOver(type, dirs)
              /\ Len(result.value.rows)
                   = TotalRows(Resolved.value, <<"person-", type, ".txt">>)
         ELSE result.status = "FileNotFoundError"

C23_Witness ==
  /\ request.op = "_group_quarter_data"
  /\ request.group_quarter_type = "college_dorm"
  /\ request.locations = <<NameM>>
  /\ request.ord = <<F10, F2>>
  /\ Done
  /\ IsOk(result)
  /\ Len(result.value.rows) = 3
  /\ result.value.rows[3] = [PERSON |-> "g21", ROLE |-> "0", PLACE |-> "d21",
                             Block_Group |-> "bg2", gq_type |-> "college_dorm"]

\* the directories a legacy call resolves to
RTI_Resolved == RTI_locations_to_dirs(request.locations)

\* C24: on a legacy dataset whose people.txt (and gq_people.txt) files all
\* exist and are well formed, RTISynthPop.load_people returns a table, and a
\* field that holds the token X in people.txt is a missing value in it.
C24_LegacyPeople ==
  (request.op = "load_people" /\ Done /\ IsOk(RTI_Resolved))
  => /\ IsOk(result)
     /\ \A d \in RTI_Resolved.value :
          \A i \in DOMAIN files[d][<<"people.txt">>].rows :
            LET person == files[d][<<"people.txt">>].rows[i] IN
            \E r \in Range(result.value.rows) :
              /\ r["sp_id"] = person["sp_id"]
              /\ \A c \in Range(people_cols) :
                   r[c] = IF person[c] = Sentinel THEN NaN ELSE person[c]

\* the legacy loader has been called on a location with well-formed files
C24_Called ==
  /\ request.op = "load_people"
  /\ request.locations = <<NameA>>
  /\ Done
  /\ \A i \in DOMAIN files[F2][<<"people.txt">>].rows :
       \A c \in Range(people_cols) :
         files[F2][<<"people.txt">>].rows[i][c] # Sentinel
  /\ result.status = "TypeError"

\* two outcomes are the same return value or the same error
Same(a, b) == a.status = b.status /\ a.value = b.value

SingleSpaced(line) == join(<<Space>>, split(line)) \o <<Newline>>

\* C26: locations() reads every line of the index as a name and its codes
\* whatever whitespace separates them: it returns the mapping it returns
\* for the index with a single space between the fields of every line, it
\* does not fail, and no key of the mapping has a digit of a FIPS code in it.
C26_AnyWhitespace ==
  (request.op = "locations" /\ Done)
  => /\ IsOk(result)
     /\ result = locations_lines([i \in DOMAIN index |-> SingleSpaced(index[i])],
                                 <<>>)
     /\ \A k \in DictKeys(result.value) :
          \A i \in DOMAIN k : k[i] \notin {Digit(0), Digit(1), Digit(2)}

\* locations() has been called on an index with a tab after a name
C26_Called ==
  /\ request.op = "locations"
  /\ Done
  /\ index = <<SepLine(NameA, <<Tab>>, <<F2>>, <<Space>>)>>
  /\ available = Codes
  /\ result.status = "ValueError"

\* locations() has been called on an index with a tab after the name of a
\* line of two codes
C26_CalledKey ==
  /\ request.op = "locations"
  /\ Done
  /\ index = <<SepLine(NameA, <<Space>>, <<F2>>, <<Space>>),
               SepLine(NameM, <<Tab>>, <<F2, F10>>, <<Space>>)>>
  /\ available = Codes
  /\ result = Ok(<< <<NameA, <<F2>>>>, <<NameM \o <<Tab>> \o F2, <<F10>>>> >>)

\* a count is the number of rows of what a loader gives: both return, the
\* count being the number of rows, or both fail alike
CountOf(count, table) ==
  IF IsOk(count) THEN IsOk(table) /\ count.value = Len(table.value.rows)
  ELSE table.status = count.status

\* C27 (legacy variant): population_count(L, g) is the number of rows of
\* load_people(L, g) and gq_population_count(L) the number of rows of
\* load_gq_people(L), the counts being line counts less one per file.
C27_LegacyCounts ==
  /\ (request.op = "population_count" /\ Done)
      => CountOf(result, RTI_load_people(request.locations,
                                         request.include_gq_people, request.ord))
  /\ (request.op = "gq_population_count" /\ Done)
      => CountOf(result, RTI_load_gq_people(request.locations, request.ord))

\* the group-quarters count has been taken of a file whose last line does
\* not end with a newline
C27_CalledGq ==
  /\ request.op = "gq_population_count"
  /\ request.locations = <<NameA>>
  /\ Done
  /\ ~files[F2][<<"gq_people.txt">>].final_newline
  /\ result = Ok(0)
  /\ Len(RTI_load_gq_people(request.locations, request.ord).value.rows) = 1

\* C27 (current variant), where the loader returns: the counts are the
\* numbers of rows of the tables
C27_CurrentCounts ==
  /\ (request.op = "population_count" /\ Done)
      => LET people == load_people(request.locations, request.include_gq_people,
                                   request.ord)
         IN  IsOk(people) => result = Ok(Len(people.value.rows))
  /\ (request.op = "gq_population_count" /\ Done)
      => LET gq == load_gq_people(request.locations, request.ord)
         IN  IsOk(gq) => result = Ok(Len(gq.value.rows))

\* C27 (current variant), for every location list
C27_CurrentCountsAlways ==
  /\ (request.op = "population_count" /\ Done)
      => CountOf(result, load_people(request.locations,
                                     request.include_gq_people, request.ord))
  /\ (request.op = "gq_population_count" /\ Done)
      => CountOf(result, load_gq_people(request.locations, request.ord))

\* C28: every code of county_fips_codes, and so every directory that
\* _locations_to_dirs returns, is a subdirectory of the dataset root, and no
\* loader fails for having looked into a directory that does not exist.
C28_DirectoriesExist ==
  /\ IsOk(county_fips_codes) => county_fips_codes.value \subseteq available
  /\ (request.op = "_locations_to_dirs" /\ Done /\ IsOk(result))
      => result.value \subseteq available
  /\ (request.op \in Loaders /\ Done /\ result.status = "FileNotFoundError")
      => result.value[1] \in available

\* a loader has been called for a metro area one of whose counties has no
\* directory
C28_Called ==
  /\ request.op = "load_schools"
  /\ request.locations = <<NameM>>
  /\ available = {F2}
  /\ Done
  /\ result = Raise("FileNotFoundError", <<F10, <<"school.txt">>>>)

\* C29: for the empty list of identifiers every loader returns a table
\* without rows, and the two population counts return 0.
C29_EmptyList ==
  (request.locations = <<>> /\ Done)
  => /\ request.op \in Loaders => IsOk(result) /\ result.value.rows = <<>>
     /\ request.op \in {"population_count", "gq_population_count"}
          => result = Ok(0)

\* the people loader has been called with the empty list
C29_Called ==
  /\ request.op = "load_people"
  /\ request.locations = <<>>
  /\ ~request.include_gq_people
  /\ Done
  /\ result.status = "KeyError"

\* what holds of the empty list: schools and workplaces are tables without
\* rows and the counts are 0
C29_EmptyListPlaces ==
  (request.locations = <<>> /\ Done)
  => /\ request.op \in {"load_schools", "load_workplaces"}
          => IsOk(result) /\ result.value.rows = <<>>
     /\ request.op \in {"population_count", "gq_population_count"}
          => result = Ok(0)

\* C30: _group_quarter_types returns a list for every content of the
\* metadata file, a line that has not the form "<group>,person-<type>.txt"
\* giving no type: the list is that of the well-formed lines of the file, and
\* load_gq_people does what it does on the file without the other lines.
C30_ToleratesOtherLines ==
  LET formed(l) == WellFormed(<<l>>)
      lines == SelectSeq(group_metadata, formed)
  IN  /\ (request.op = "_group_quarter_types" /\ Done)
          => result = group_quarter_types_of(lines)
      /\ (request.op = "load_gq_people" /\ Done)
          => (result.status = "AttributeError" => lines = group_metadata)

\* the types have been asked of a metadata file with a blank line
C30_Called ==
  /\ request.op = "_group_quarter_types"
  /\ group_metadata = GroupMetadata \o <<<<Newline>>>>
  /\ Done
  /\ result.status = "AttributeError"

\* the group-quarters people have been asked of a dataset whose metadata file
\* has a line with a digit in its names
C30_CalledLoader ==
  /\ request.op = "load_gq_people"
  /\ request.locations = <<NameA>>
  /\ Len(group_metadata) = 5
  /\ \E i \in DOMAIN group_metadata[1] : group_metadata[1][i] = Zero + 2
  /\ Done
  /\ result.status = "AttributeError"
====
